---- MODULE Spec2Model ----
\* Verification model of tmt's execute/provision core:
\*   - ExecuteInternal._run_tests and its helpers (tmt/steps/execute/internal.py)
\*   - Provision.wake / Provision.go / Provision.save (tmt/steps/provision/__init__.py)
EXTENDS Integers, Sequences, FiniteSets, TLC

\* ---------------------------------------------------------------------------
\* Bounds of the model
\* ---------------------------------------------------------------------------
\* Largest number of tests discovered for the guest.
MaxTests == 2
\* Largest number of results one check() call returns.
MaxResults == 1
\* Largest number of reboots one test requests.
MaxReboots == 1
\* Largest timeout value (seconds) written into a reboot request.
MaxTimeout == 1
\* Largest number of phases of the provision step.
MaxPhases == 2
\* Largest number of Provision.go() invocations in one run.
MaxGoCalls == 2

\* ---------------------------------------------------------------------------
\* Program constants
\* ---------------------------------------------------------------------------
PROCESS_TIMEOUT == 124

\* Optional values: <<>> is Python's None, <<x>> a present value.
NoValue == <<>>
Some(x) == <<x>>

\* tmt.result.ResultOutcome values check() hands back; ERROR is also what the
\* loop assigns after a reboot timeout.
PassingOutcomes == {"pass", "info"}
Outcomes == {"pass", "fail", "info"}
NoNote == "None"

\* ---------------------------------------------------------------------------
\* State of ExecuteInternal._run_tests
\* ---------------------------------------------------------------------------
\* The attributes and files of a test are those of tests[index], the test being
\* processed: the loop never reads another test's.
VARIABLES
    pc,            \* position in _run_tests
    err,           \* exception that left _run_tests ("none" while running)
    ntests,        \* len(tests)
    exit_first,    \* the exit-first option
    index,         \* loop variable index (0-based, as in the source)
    results,       \* local list returned by check()
    result,        \* loop variable of the "for result in results" loops
    abort,         \* local variable abort
    recorded,      \* self._results
    reboot_count,  \* test._reboot_count
    returncode,    \* test.returncode (NoValue until set)
    written,       \* log: text the execute() that just returned appended to the
                   \* test's output file
    rebootFile,    \* the reboot request file exists in the test's data directory
    abortFile,     \* the abort file exists in the test's data directory
    prevExec,      \* log: the self.execute() call before the latest one
    curExec,       \* log: the latest self.execute() call
    lastExec,      \* log: what guest.execute did in the execute() that just returned
    checked,       \* log: outcomes the latest check() returned (emptied once
                   \* its results are annotated, recorded or discarded)
    handled,       \* log: the _handle_reboot call that just ended
    rebootTimeout, \* log: RebootTimeoutError was caught in this iteration
    recordedFor,   \* log: test index of every self._results.extend() call
    markerSeen,    \* log: a reboot or abort marker was present after some test
    pulls          \* log: the kind of the latest guest.pull() call, and the
                   \* number of pulls of the plan data directory

execVars == <<pc, err, ntests, exit_first, index, results, result, abort,
              recorded, reboot_count, returncode, written, rebootFile,
              abortFile, prevExec, curExec, lastExec, checked, handled,
              rebootTimeout, recordedFor, markerSeen, pulls>>

\* ---------------------------------------------------------------------------
\* State of the Provision step
\* ---------------------------------------------------------------------------
VARIABLES
    ppc,          \* position of the step: constructed, woken, inside go(), ...
    perr,         \* exception that left go() ("none" otherwise)
    status,       \* self.status()
    phases,       \* self.phases(): the class of each phase, in order
    guest,        \* phase.guest() of each phase: "None", or its readiness
    guests,       \* self._guests: the phases whose guest is listed, in order
    dry,          \* self.opt('dry')
    pos,          \* the phase the loop of go() is at (1-based)
    save,         \* local variable save of go()
    goCalls,      \* number of go() invocations so far
    entered,      \* log: status, guest list and number of save() calls when
                  \* the latest go() was entered
    phaseRuns,    \* log: the phases the latest go() ran, with how their go()
                  \* and details() ended
    saved         \* guests.yaml as this run wrote it (NoValue: not written), how
                  \* the latest self.save() ended, and the number of save() calls

provVars == <<ppc, perr, status, phases, guest, guests, dry, pos, save,
              goCalls, entered, phaseRuns, saved>>

\* ---------------------------------------------------------------------------
\* State of a guest data round trip (Guest.save ... Guest.load)
\* ---------------------------------------------------------------------------
VARIABLES
    trip          \* how far the round trip went, the guest that is saved, the
                  \* container save() returned, its serialized form, the
                  \* container unserialize() returned and the guest loaded

dataVars == <<trip>>

\* ---------------------------------------------------------------------------
\* State of a GuestSsh object and of the module it is defined in
\* ---------------------------------------------------------------------------
VARIABLES
    ssh,          \* the guest: whether self.guest is set, self.opt('dry'),
                  \* and whether self._ssh_master_process is set
    defaults,     \* the module-level lists DEFAULT_RSYNC_PUSH_OPTIONS and
                  \* DEFAULT_RSYNC_PULL_OPTIONS
    call,         \* log: the latest call of execute(), push() or pull(): its
                  \* arguments, the subprocesses it started, in order, and how
                  \* it ended
    ncalls,       \* number of calls made on the guest so far
    rb            \* GuestSsh.reboot(): its arguments, current_boot_time, and
                  \* the locals of the wait() it calls: the time (seconds
                  \* since wait() was entered), deadline, tick, and a log of
                  \* the latest boot time read made by check_boot_time()

sshVars == <<ssh, defaults, call, ncalls, rb>>

\* ---------------------------------------------------------------------------
\* State of a call of utils.wait()
\* ---------------------------------------------------------------------------
VARIABLES
    wt            \* wait(): its arguments, its locals (deadline, tick), the
                  \* time (seconds since wait() was called), a log of the
                  \* check() calls and of the sleeps, and how it ended

waitVars == <<wt>>

\* ---------------------------------------------------------------------------
\* State of a call of Common.run()
\* ---------------------------------------------------------------------------
VARIABLES
    proc          \* run() and _run(): the arguments, the child process and a
                  \* descendant of it outside its process group, the lines
                  \* the stream readers captured, process.returncode, a log
                  \* of Popen and killpg calls, and how run() ended

runVars == <<proc>>

\* ---------------------------------------------------------------------------
\* State of a lint command and of a call of ExecuteInternal.check()
\* ---------------------------------------------------------------------------
VARIABLES
    lt,           \* a lint command: the tests, plans and stories of the tree
                  \* with what lint() gives for each, the items lint() was
                  \* called for, the exit codes of the commands forwarded to,
                  \* and the exit code
    ck            \* check(): test.result, test.framework, what each checker
                  \* would give, the checkers called and what check() gave

lintVars == <<lt>>

checkVars == <<ck>>

\* ---------------------------------------------------------------------------
\* State of the master connection of one GuestSsh
\* ---------------------------------------------------------------------------
VARIABLES
    ms            \* _ssh_master_process and _ssh_socket_path of one guest, the
                  \* master processes alive, the control socket file, a log of
                  \* the Popen and mktemp calls and of the socket paths given
                  \* to ssh and rsync, and how the latest stop() went

masterVars == <<ms>>

\* ---------------------------------------------------------------------------
\* State of the normalization of provision step data, and of workdir creation
\* ---------------------------------------------------------------------------
VARIABLES
    nz,           \* Provision._normalize_data: the names of the step data,
                  \* how it ended, the guests provisioned from the data and
                  \* the mapping save() makes of them
    wd            \* _workdir_init of runs started without an id: the
                  \* directories under the workdir root, and for each run its
                  \* id_bit, its workdir and how it ended

normVars == <<nz>>

workdirVars == <<wd>>

\* ---------------------------------------------------------------------------
\* Reboot request file content (read with json.loads in _handle_reboot)
\* ---------------------------------------------------------------------------
\* kind:    "invalid_json" the file is not JSON
\*          "not_object"   JSON, but not an object (a list, a number)
\*          "object"       a JSON object
\* command: "absent" (no key, "" or null), "string", "nonstring" (a truthy
\*          value that is not a string)
\* timeout: t = "absent" (no key), "wrongtype" (null, a list), "nonnumeric"
\*          (a string int() rejects), "numeric" (the number v, or the decimal
\*          digits of v as a string: int() gives v for both)
NoTimeoutField == [t |-> "absent", v |-> 0]
TimeoutFields ==
    {[t |-> k, v |-> 0] : k \in {"absent", "wrongtype", "nonnumeric"}}
    \cup [t : {"numeric"}, v : 1..MaxTimeout]
CommandFields == {"absent", "string", "nonstring"}

NoContent == [kind |-> "none", command |-> "absent", timeout |-> NoTimeoutField]
MarkerContents ==
    {[kind |-> k, command |-> "absent", timeout |-> NoTimeoutField] :
        k \in {"invalid_json", "not_object"}}
    \cup [kind : {"object"}, command : CommandFields, timeout : TimeoutFields]

\* json.loads(...) followed by the first reboot_data.get() (lines 282-285):
\* the exception raised, "none" when the content is a JSON object.
LoadError(content) ==
    CASE content.kind = "invalid_json" -> "JSONDecodeError"
      [] content.kind = "not_object" -> "AttributeError"
      [] OTHER -> "none"

\* reboot_command after lines 284-289: ShellScript(...) of a truthy string; a
\* truthy non-string raises TypeError in ShellScript, which is swallowed.
ParseCommand(content) ==
    IF content.command = "string" THEN "custom" ELSE "None"

\* int(reboot_data.get('timeout')) under "except ValueError" (lines 290-293):
\* int(None) and int([..]) raise TypeError, which is not caught.
ParseTimeout(content) ==
    CASE content.timeout.t = "numeric" ->
            [error |-> "none", value |-> Some(content.timeout.v)]
      [] content.timeout.t = "nonnumeric" ->
            [error |-> "none", value |-> NoValue]
      [] OTHER -> [error |-> "TypeError", value |-> NoValue]

\* Answers of one guest.reboot() call.
RebootOutcomes == {"True", "False", "RunError", "ProvisionError"}
\* Answers of guest.push() / guest.pull().
SyncOutcomes == {"ok", "RunError"}

NotHandled == [done |-> FALSE, content |-> NoContent, countBefore |-> 0,
               pushed |-> "no", calls |-> <<>>, outcome |-> "none"]
NoExec == [kind |-> "none", stdout |-> "None"]
NoExecution == [index |-> -1, rebooted |-> FALSE]

\* Lists check() may return: every list of at most MaxResults outcomes.
ResultLists == UNION {[1..n -> Outcomes] : n \in 0..MaxResults}

MakeResults(i, outcomes) ==
    [k \in 1..Len(outcomes) |-> [test |-> i, result |-> outcomes[k], note |-> NoNote]]

\* Value of the loop variable after "for result in results": rebound to the
\* last element, left alone when the list is empty.
AfterFor(rs, old) == IF Len(rs) > 0 THEN Some(rs[Len(rs)]) ELSE old

SetNote(rs, note) == [k \in 1..Len(rs) |-> [rs[k] EXCEPT !.note = note]]
SetErrorNote(rs, note) ==
    [k \in 1..Len(rs) |-> [rs[k] EXCEPT !.result = "error", !.note = note]]

\* No guest.pull() call was made.
NoPulls == [last |-> "none", plan |-> 0]

InitExecute ==
    /\ pc = "start"
    /\ err = "none"
    /\ ntests \in 0..MaxTests
    /\ exit_first \in BOOLEAN
    /\ index = 0
    /\ results = <<>>
    /\ result = NoValue
    /\ abort = FALSE
    /\ recorded = <<>>
    /\ reboot_count = 0
    /\ returncode = NoValue
    /\ written = "None"
    /\ rebootFile = FALSE
    /\ abortFile = FALSE
    /\ prevExec = NoExecution
    /\ curExec = NoExecution
    /\ lastExec = NoExec
    /\ checked = <<>>
    /\ handled = NotHandled
    /\ rebootTimeout = FALSE
    /\ recordedFor = <<>>
    /\ markerSeen = FALSE
    /\ pulls = NoPulls

\* _run_tests raises: nothing after the raising statement is executed and the
\* local variables go with the frame.
Raise(e) ==
    /\ pc' = "raised"
    /\ err' = e
    /\ results' = <<>>
    /\ result' = NoValue
    /\ abort' = FALSE
    /\ checked' = <<>>

\* guest.pull(source=self.data_path(test, guest, full=True), ...) is called.
TestPull(log) == [log EXCEPT !.last = "test"]

\* guest.pull(source=self.step.plan.data_directory) is called.
PlanPull(log) == [last |-> "plan", plan |-> log.plan + 1]

\* Faulty variant: _run_tests returns when the loop condition fails.
AfterLoopCompletedReturns(how) ==
    IF how = "completed" THEN "done" ELSE "final_pull"

\* Faulty variant: 'break' returns from _run_tests.
AfterLoopBreakReturns(how) ==
    IF how = "break" THEN "done" ELSE "final_pull"

\* Where _run_tests goes on when the loop is left, by its condition
\* ("completed") or by 'break': at the statements after the loop (line 421).
AfterLoop(how) == "final_pull"

\* _run_tests goes on at position p.
Goto(p) ==
    /\ pc' = p
    /\ err' = err

Locals == <<results, result, abort, checked>>

\* guest.push() of the workdir before the loop (line 347).
PushWorkdir ==
    /\ pc = "start"
    /\ UNCHANGED pulls
    /\ UNCHANGED <<provVars, dataVars, sshVars, waitVars, runVars, lintVars,
                   checkVars, masterVars, normVars, workdirVars>>
    /\ \E o \in SyncOutcomes :
          IF o = "ok" THEN Goto("loop") /\ UNCHANGED Locals ELSE Raise(o)
    /\ UNCHANGED <<ntests, exit_first, index, recorded,
                   reboot_count, returncode, written, rebootFile, abortFile,
                   prevExec, curExec, lastExec, handled,
                   rebootTimeout, recordedFor, markerSeen>>

\* "while index < len(tests)" (line 350).
LoopTest ==
    /\ pc = "loop"
    /\ UNCHANGED pulls
    /\ UNCHANGED <<provVars, dataVars, sshVars, waitVars, runVars, lintVars,
                   checkVars, masterVars, normVars, workdirVars>>
    /\ pc' = IF index < ntests THEN "execute" ELSE AfterLoop("completed")
    /\ handled' = NotHandled
    /\ UNCHANGED <<err, ntests, exit_first, index, results, result, abort,
                   recorded, reboot_count, returncode, written, rebootFile,
                   abortFile, prevExec, curExec, lastExec, checked,
                   rebootTimeout, recordedFor, markerSeen>>

\* Answers of guest.execute() for the test command: success, a non-zero exit,
\* or the duration exceeded (a RunError carrying PROCESS_TIMEOUT). The stdout
\* of a RunError may be None.
ExecOutcomes ==
    {[kind |-> "ok", stdout |-> "output"], [kind |-> "fail", stdout |-> "output"]}
    \cup [kind : {"timeout"}, stdout : {"output", "None"}]

\* Faulty variant: the RunError of an exceeded duration leaves execute().
AfterGuestExecuteTimeoutFatal(o) ==
    [raised |-> IF o.kind = "timeout" THEN "RunError" ELSE "none",
     returncode |-> CASE o.kind = "ok" -> 0
                      [] o.kind = "timeout" -> PROCESS_TIMEOUT
                      [] OTHER -> 1]

\* try/except around guest.execute (lines 221-237): the return code the test
\* gets, the exception that leaves execute() ("none": RunError is handled).
AfterGuestExecute(o) ==
    [raised |-> "none",
     returncode |-> CASE o.kind = "ok" -> 0
                      [] o.kind = "timeout" -> PROCESS_TIMEOUT
                      [] OTHER -> 1]

\* "stdout or ''" (line 241)
Written(o) == IF o.stdout = "None" THEN "" ELSE o.stdout

\* self.execute(test, guest) (lines 358, 177-242): push the wrapper, run the
\* test with its duration as timeout, save output and return code.
Execute ==
    /\ pc = "execute"
    /\ UNCHANGED pulls
    /\ UNCHANGED <<provVars, dataVars, sshVars, waitVars, runVars, lintVars,
                   checkVars, masterVars, normVars, workdirVars>>
    /\ prevExec' = curExec
    /\ curExec' = [index |-> index, rebooted |-> FALSE]
    /\ rebootTimeout' = FALSE
    /\ \E p \in SyncOutcomes :
          IF p # "ok"
          THEN /\ Raise(p)
               /\ UNCHANGED <<returncode, written, lastExec>>
          ELSE \E o \in ExecOutcomes :
               LET after == AfterGuestExecute(o)
               IN  /\ lastExec' = o
                   /\ IF after.raised # "none"
                      THEN /\ Raise(after.raised)
                           /\ UNCHANGED <<returncode, written>>
                      ELSE /\ returncode' = Some(after.returncode)
                           /\ written' = Written(o)
                           /\ Goto("pull")
                           /\ UNCHANGED Locals
    /\ UNCHANGED <<ntests, exit_first, index, recorded,
                   reboot_count, rebootFile, abortFile, handled,
                   recordedFor, markerSeen>>

\* guest.pull() of the test data directory (lines 360-369): brings the files
\* the test left on the guest, among them the reboot request and abort files.
PullTestData ==
    /\ pc = "pull"
    /\ pulls' = TestPull(pulls)
    /\ UNCHANGED <<provVars, dataVars, sshVars, waitVars, runVars, lintVars,
                   checkVars, masterVars, normVars, workdirVars>>
    /\ lastExec' = NoExec
    /\ written' = "None"
    /\ \E p \in SyncOutcomes :
          IF p # "ok"
          THEN /\ Raise(p)
               /\ UNCHANGED <<rebootFile, abortFile, markerSeen>>
          ELSE \E r \in BOOLEAN, a \in BOOLEAN :
               /\ r => reboot_count < MaxReboots
               /\ rebootFile' = r
               /\ abortFile' = a
               /\ markerSeen' = (markerSeen \/ r \/ a)
               /\ Goto("check")
               /\ UNCHANGED Locals
    /\ UNCHANGED <<ntests, exit_first, index, recorded,
                   reboot_count, returncode, prevExec, curExec,
                   handled, rebootTimeout, recordedFor>>

\* results = self.check(test, guest) (line 371)
Check ==
    /\ pc = "check"
    /\ UNCHANGED pulls
    /\ UNCHANGED <<provVars, dataVars, sshVars, waitVars, runVars, lintVars,
                   checkVars, masterVars, normVars, workdirVars>>
    /\ \E outcomes \in ResultLists :
          /\ results' = MakeResults(index, outcomes)
          /\ checked' = outcomes
    /\ pc' = "reboot_check"
    /\ UNCHANGED <<err, ntests, exit_first, index, result, abort, recorded,
                   reboot_count, returncode, written, rebootFile, abortFile,
                   prevExec, curExec, lastExec, handled, rebootTimeout,
                   recordedFor, markerSeen>>

\* "if self._will_reboot(test, guest)" (lines 377, 257-259)
WillReboot ==
    /\ pc = "reboot_check"
    /\ UNCHANGED pulls
    /\ UNCHANGED <<provVars, dataVars, sshVars, waitVars, runVars, lintVars,
                   checkVars, masterVars, normVars, workdirVars>>
    /\ pc' = IF rebootFile THEN "handle_reboot" ELSE "abort_check"
    /\ UNCHANGED <<err, ntests, exit_first, index, results, result, abort,
                   recorded, reboot_count, returncode, written, rebootFile,
                   abortFile, prevExec, curExec, lastExec, checked, handled,
                   rebootTimeout, recordedFor, markerSeen>>

\* Faulty variant: the results of the execution that rebooted are recorded.
AfterRebootRecords == "record"

\* Faulty variant: the abort marker is examined after a reboot.
AfterRebootChecksAbort == "abort_check"

\* "if self._handle_reboot(test, guest): continue" (lines 382-383): back to
\* the loop condition with the same index.
AfterReboot == "loop"

\* One guest.reboot() call as _handle_reboot makes it.
RebootCall(hard, command, timeout, outcome) ==
    [hard |-> hard, command |-> command, timeout |-> timeout, outcome |-> outcome]

\* Faulty variant: no hard reboot after a ProvisionError.
RebootCallsNoRetry(command, timeout, o1, o2) ==
    <<RebootCall(FALSE, command, timeout, o1)>>

\* The guest.reboot() calls of lines 297-309: the soft reboot with the parsed
\* command and timeout; on ProvisionError one more call with hard=True and the
\* same timeout. o1, o2 are what the guest answers to the first and second call.
RebootCalls(command, timeout, o1, o2) ==
    IF o1 = "ProvisionError"
    THEN <<RebootCall(FALSE, command, timeout, o1),
           RebootCall(TRUE, "None", timeout, o2)>>
    ELSE <<RebootCall(FALSE, command, timeout, o1)>>

\* How _handle_reboot ends for the calls made: the last call's answer decides;
\* "if not rebooted: raise RebootTimeoutError" (lines 310-312).
RebootEnd(calls) ==
    CASE calls[Len(calls)].outcome = "True" -> "continue"
      [] calls[Len(calls)].outcome = "False" -> "RebootTimeoutError"
      [] OTHER -> calls[Len(calls)].outcome

\* Faulty variant: the results stay as check() returned them.
OnRebootTimeoutKeep(rs) == rs

\* "except tmt.utils.RebootTimeoutError" (lines 384-387)
OnRebootTimeout(rs) == SetErrorNote(rs, "reboot timeout")

\* Faulty variant: the reboot request file is left in place.
OsRemoveSkipped(exists) == exists

\* 'os.remove(reboot_request_path)' (line 295): the file no longer exists.
OsRemove(exists) == FALSE

\* "try: if self._handle_reboot(test, guest): continue" with its except clause
\* (lines 381-387) and the whole of _handle_reboot (lines 267-313).
HandleReboot ==
    /\ pc = "handle_reboot"
    /\ UNCHANGED pulls
    /\ UNCHANGED <<provVars, dataVars, sshVars, waitVars, runVars, lintVars,
                   checkVars, masterVars, normVars, workdirVars>>
    /\ reboot_count' = reboot_count + 1
    /\ \E content \in MarkerContents :
       LET parsed == ParseTimeout(content)
           Log(pushed, calls, outcome) ==
               [done |-> TRUE, content |-> content, countBefore |-> reboot_count,
                pushed |-> pushed, calls |-> calls, outcome |-> outcome]
       IN  IF LoadError(content) # "none"
           THEN /\ Raise(LoadError(content))
                /\ handled' = Log("no", <<>>, LoadError(content))
                /\ UNCHANGED <<rebootFile, curExec, rebootTimeout>>
           ELSE IF parsed.error # "none"
           THEN /\ Raise(parsed.error)
                /\ handled' = Log("no", <<>>, parsed.error)
                /\ UNCHANGED <<rebootFile, curExec, rebootTimeout>>
           ELSE
             /\ rebootFile' = OsRemove(rebootFile)
             /\ \E p \in SyncOutcomes :
                  IF p # "ok"
                  THEN /\ Raise(p)
                       /\ handled' = Log(p, <<>>, p)
                       /\ UNCHANGED <<curExec, rebootTimeout>>
                  ELSE \E o1 \in RebootOutcomes :
                       \E o2 \in (IF o1 = "ProvisionError" THEN RebootOutcomes ELSE {"True"}) :
                       LET calls == RebootCalls(ParseCommand(content), parsed.value, o1, o2)
                           end == RebootEnd(calls)
                       IN  /\ handled' = Log("ok", calls, end)
                           /\ CASE end = "continue" ->
                                     /\ Goto(AfterReboot)
                                     /\ curExec' = [curExec EXCEPT !.rebooted = TRUE]
                                     /\ checked' = <<>>
                                     /\ UNCHANGED <<results, result, abort, rebootTimeout>>
                                [] end = "RebootTimeoutError" ->
                                     /\ results' = OnRebootTimeout(results)
                                     /\ result' = AfterFor(results', result)
                                     /\ rebootTimeout' = TRUE
                                     /\ checked' = <<>>
                                     /\ Goto("abort_check")
                                     /\ UNCHANGED <<abort, curExec>>
                                [] OTHER ->
                                     /\ Raise(end)
                                     /\ UNCHANGED <<curExec, rebootTimeout>>
    /\ UNCHANGED <<ntests, exit_first, index, recorded, returncode,
                   written, abortFile, prevExec, lastExec,
                   recordedFor, markerSeen>>

\* "if abort: for result in results: result.note = 'aborted'" (lines 389-392)
OnAbort(rs) == SetNote(rs, "aborted")

\* abort = self.check_abort_file(test, guest) and the annotation (lines 388-392)
CheckAbort ==
    /\ pc = "abort_check"
    /\ UNCHANGED pulls
    /\ UNCHANGED <<provVars, dataVars, sshVars, waitVars, runVars, lintVars,
                   checkVars, masterVars, normVars, workdirVars>>
    /\ abort' = abortFile
    /\ IF abort'
       THEN /\ results' = OnAbort(results)
            /\ result' = AfterFor(results', result)
            /\ checked' = <<>>
       ELSE UNCHANGED <<results, result, checked>>
    /\ handled' = NotHandled
    /\ pc' = "record"
    /\ UNCHANGED <<err, ntests, exit_first, index, recorded, reboot_count,
                   returncode, written, rebootFile, abortFile, prevExec,
                   curExec, lastExec, rebootTimeout, recordedFor,
                   markerSeen>>

\* Faulty variant: the results are not added.
ExtendDropping(rec, rs) == rec

\* self._results.extend(results) (line 393)
Extend(rec, rs) == rec \o rs

\* self._results.extend(results) and the reporting loop (lines 393-397)
Record ==
    /\ pc = "record"
    /\ UNCHANGED pulls
    /\ UNCHANGED <<provVars, dataVars, sshVars, waitVars, runVars, lintVars,
                   checkVars, masterVars, normVars, workdirVars>>
    /\ recorded' = Extend(recorded, results)
    /\ recordedFor' = Append(recordedFor, index)
    /\ result' = AfterFor(results, result)
    /\ pc' = "stop_check"
    /\ UNCHANGED <<err, ntests, exit_first, index, results, abort, reboot_count,
                   returncode, written, rebootFile, abortFile, prevExec,
                   curExec, lastExec, checked, handled, rebootTimeout,
                   markerSeen>>

\* Faulty variant: the abort marker does not stop the loop.
StopDecisionIgnoringAbort(ab, ef, res) ==
    IF ~ef THEN "next"
    ELSE IF res = NoValue THEN "UnboundLocalError"
    ELSE IF res[1].result \notin PassingOutcomes THEN "break" ELSE "next"

\* Faulty variant: exit-first does not stop the loop.
StopDecisionIgnoringExitFirst(ab, ef, res) ==
    IF ab THEN "break" ELSE "next"

\* "abort or exit_first and result.result not in (PASS, INFO)" (lines 398-399):
\* "break", "next", or "UnboundLocalError" when the variable result is read
\* before any "for result in results" loop bound it.
StopDecision(ab, ef, res) ==
    IF ab THEN "break"
    ELSE IF ~ef THEN "next"
    ELSE IF res = NoValue THEN "UnboundLocalError"
    ELSE IF res[1].result \notin PassingOutcomes THEN "break" ELSE "next"

\* The break / "index += 1" at the end of the loop body (lines 398-406);
\* after "index += 1" the test attributes and files are those of the next test.
StopCheck ==
    /\ pc = "stop_check"
    /\ UNCHANGED pulls
    /\ UNCHANGED <<provVars, dataVars, sshVars, waitVars, runVars, lintVars,
                   checkVars, masterVars, normVars, workdirVars>>
    /\ LET d == StopDecision(abort, exit_first, result)
       IN  CASE d = "break" ->
                  /\ Goto(AfterLoop("break"))
                  /\ checked' = <<>>
                  /\ UNCHANGED <<results, result, abort, index, reboot_count,
                                 returncode, written, rebootFile, abortFile>>
             [] d = "next" ->
                  /\ Goto("loop")
                  /\ checked' = <<>>
                  /\ index' = index + 1
                  /\ reboot_count' = 0
                  /\ returncode' = NoValue
                  /\ rebootFile' = FALSE
                  /\ abortFile' = FALSE
                  /\ UNCHANGED <<results, result, abort, written>>
             [] OTHER ->
                  /\ Raise(d)
                  /\ UNCHANGED <<index, reboot_count, returncode, written,
                                 rebootFile, abortFile>>
    /\ UNCHANGED <<ntests, exit_first, recorded,
                   prevExec, curExec, lastExec, handled,
                   rebootTimeout, recordedFor, markerSeen>>

\* guest.pull() of the plan data directory after the loop (line 426)
FinalPull ==
    /\ pc = "final_pull"
    /\ pulls' = PlanPull(pulls)
    /\ UNCHANGED <<provVars, dataVars, sshVars, waitVars, runVars, lintVars,
                   checkVars, masterVars, normVars, workdirVars>>
    /\ \E p \in SyncOutcomes :
          IF p = "ok" THEN Goto("done") /\ UNCHANGED Locals ELSE Raise(p)
    /\ UNCHANGED <<ntests, exit_first, index, recorded,
                   reboot_count, returncode, written, rebootFile, abortFile,
                   prevExec, curExec, lastExec, handled,
                   rebootTimeout, recordedFor, markerSeen>>

ExecuteNext ==
    \/ PushWorkdir
    \/ LoopTest
    \/ Execute
    \/ PullTestData
    \/ Check
    \/ WillReboot
    \/ HandleReboot
    \/ CheckAbort
    \/ Record
    \/ StopCheck
    \/ FinalPull

\* _run_tests is not running.
ExecuteIdle ==
    /\ pc = "off"
    /\ err = "none"
    /\ ntests = 0
    /\ exit_first = FALSE
    /\ index = 0
    /\ results = <<>>
    /\ result = NoValue
    /\ abort = FALSE
    /\ recorded = <<>>
    /\ reboot_count = 0
    /\ returncode = NoValue
    /\ written = "None"
    /\ rebootFile = FALSE
    /\ abortFile = FALSE
    /\ prevExec = NoExecution
    /\ curExec = NoExecution
    /\ lastExec = NoExec
    /\ checked = <<>>
    /\ handled = NotHandled
    /\ rebootTimeout = FALSE
    /\ recordedFor = <<>>
    /\ markerSeen = FALSE
    /\ pulls = NoPulls

\* ---------------------------------------------------------------------------
\* The Provision step (tmt/steps/provision/__init__.py)
\* ---------------------------------------------------------------------------
\* Classes of the phases self.phases(classes=(Action, ProvisionPlugin)) yields.
PhaseClasses == {"Action", "ProvisionPlugin"}
PhaseLists == UNION {[1..n -> PhaseClasses] : n \in 1..MaxPhases}

\* phase.guest(): None, or a guest with is_ready False / True.
GuestStates == {"None", "notready", "ready"}

\* How a phase's go() ends: it returns, or raises one of the exceptions the
\* handlers of Provision.go() tell apart, or another one (GeneralError).
GoOutcomes == {"ok", "RunError", "ProvisionError", "SystemExit",
               "SpecificationError", "GeneralError"}

\* How guest.details() ends: it returns, _fetch_detail raises RunError, or
\* another error. "notcalled" in the log: details() was not called.
DetailsOutcomes == {"ok", "RunError", "GeneralError"}

NotEntered == [status |-> "None", guests |-> <<>>, saves |-> 0]

\* The guest of each phase as a sequence of the phases that have one.
RECURSIVE WokenGuests(_, _)
WokenGuests(g, n) ==
    IF n = 0 THEN <<>>
    ELSE IF g[n] # "None" THEN Append(WokenGuests(g, n - 1), n)
    ELSE WokenGuests(g, n - 1)

\* How writing guests.yaml ends outside dry mode.
WriteOutcomes == {"ok", "FileError"}

NotSaved == [content |-> NoValue, last |-> "none", calls |-> 0]

\* The mapping {guest.name: ...} of Provision.save() (lines 1226-1227): one
\* entry for each name; a guest is named after its phase.
GuestMapping(gs) == {gs[k] : k \in 1..Len(gs)}

\* Provision.save() (lines 1222-1231): the mapping of the listed guests goes
\* to guests.yaml, unless self.write() returns early in dry mode
\* (utils.py 940-941) or raises FileError, which save() swallows.
SaveStep(old, gs, isDry, w) ==
    [content |-> IF isDry \/ w = "FileError" THEN old.content
                 ELSE Some(GuestMapping(gs)),
     last    |-> IF isDry THEN "dry" ELSE w,
     calls   |-> old.calls + 1]

\* The step after __init__ and load(): the status stored by an earlier run (or
\* none), no guest yet.
InitProvision ==
    /\ ppc = "constructed"
    /\ perr = "none"
    /\ status \in {"None", "todo", "done"}
    /\ phases \in PhaseLists
    /\ guest = [k \in 1..Len(phases) |-> "None"]
    /\ guests = <<>>
    /\ dry \in BOOLEAN
    /\ pos = 0
    /\ save = TRUE
    /\ goCalls = 0
    /\ entered = NotEntered
    /\ phaseRuns = <<>>
    /\ saved = NotSaved

\* The Provision step is not in use.
ProvisionIdle ==
    /\ ppc = "off"
    /\ perr = "none"
    /\ status = "None"
    /\ phases = <<>>
    /\ guest = <<>>
    /\ guests = <<>>
    /\ dry = FALSE
    /\ pos = 0
    /\ save = TRUE
    /\ goCalls = 0
    /\ entered = NotEntered
    /\ phaseRuns = <<>>
    /\ saved = NotSaved

\* Provision.wake(): each plugin wakes its guest when guest data was loaded
\* for it, every guest there is gets listed, and a step that is not done
\* becomes 'todo' and is saved.
ProvisionWake ==
    /\ ppc = "constructed"
    /\ UNCHANGED <<execVars, dataVars, sshVars, waitVars, runVars, lintVars,
                   checkVars, masterVars, normVars, workdirVars>>
    /\ \E g \in [1..Len(phases) -> GuestStates] :
          /\ \A k \in 1..Len(phases) : phases[k] = "Action" => g[k] = "None"
          /\ guest' = g
          /\ guests' = guests \o WokenGuests(g, Len(phases))
    /\ IF status = "done"
       THEN UNCHANGED <<status, saved>>
       ELSE /\ status' = "todo"
            /\ \E w \in WriteOutcomes :
                  /\ dry => w = "ok"
                  /\ saved' = SaveStep(saved, guests', dry, w)
    /\ ppc' = "woken"
    /\ UNCHANGED <<perr, phases, dry, pos, save, goCalls, entered, phaseRuns>>

\* Faulty variant: go() never takes the done path.
AlreadyDoneNever(st) == FALSE

\* "if self.status() == 'done'" at the head of go() (line 1273)
AlreadyDone(st) == st = "done"

\* self.actions() of the done path (line 1276): it concerns the Action phases
\* only, which have no guest coupling; the runs of the provision plugins, the
\* status and the guest list are as before.
StepActions(runs) == runs

\* Faulty variant: the guests listed by wake() stay in the list.
ResetGuestsKeep(gs) == gs

\* "self._guests = []" (line 1280)
ResetGuests(gs) == <<>>

\* go() up to the phase loop (lines 1268-1282).
GoEnter ==
    /\ ppc \in {"woken", "returned"}
    /\ UNCHANGED <<execVars, dataVars, sshVars, waitVars, runVars, lintVars,
                   checkVars, masterVars, normVars, workdirVars>>
    /\ goCalls < MaxGoCalls
    /\ goCalls' = goCalls + 1
    /\ entered' = [status |-> status, guests |-> guests, saves |-> saved.calls]
    /\ perr' = "none"
    /\ IF AlreadyDone(status)
       THEN /\ phaseRuns' = StepActions(<<>>)
            /\ ppc' = "returned"
            /\ UNCHANGED <<guests, pos, save>>
       ELSE /\ phaseRuns' = <<>>
            /\ guests' = ResetGuests(guests)
            /\ save' = TRUE
            /\ pos' = 1
            /\ ppc' = "phases"
    /\ UNCHANGED <<status, phases, guest, dry, saved>>

\* The exception that leaves the inner try of one loop iteration (lines
\* 1285-1300): the one of phase.go(), else the one of guest.details().
PhaseRaised(o, d) ==
    IF o # "ok" THEN o
    ELSE IF d \notin {"ok", "notcalled"} THEN d
    ELSE "none"

\* Faulty variant: the loop goes on after a phase raised.
AfterPhaseSwallow(raised) == "next"

\* An exception of a phase leaves the loop (the "raise" of line 1300, and
\* exceptions the inner handler does not name): "next" or "raise".
AfterPhase(raised) == IF raised = "none" THEN "next" ELSE "raise"

\* Faulty variant: dry mode is not taken into account.
GuestListedReadyOnly(g, isDry) == g = "ready"

\* "if guest and (guest.is_ready or self.opt('dry'))" (line 1304)
GuestListed(g, isDry) == g # "None" /\ (g = "ready" \/ isDry)

\* Faulty variant: save() is called whatever was raised.
KeepSaveAlways(raised) == TRUE

\* Faulty variant: save is kept only for the errors the inner handler names.
KeepSaveNamedOnly(raised) == raised \in {"RunError", "ProvisionError"}

\* The local variable save when go() is left by an exception (lines
\* 1310-1319): SystemExit and SpecificationError clear it.
KeepSave(raised) == raised \notin {"SystemExit", "SpecificationError"}

\* One iteration of the phase loop with its handlers (lines 1284-1305), and,
\* when the phase raises, the outer handlers of go() (lines 1310-1319).
PhaseStep ==
    /\ ppc = "phases"
    /\ UNCHANGED <<execVars, dataVars, sshVars, waitVars, runVars, lintVars,
                   checkVars, masterVars, normVars, workdirVars>>
    /\ pos <= Len(phases)
    /\ \E o \in GoOutcomes, g \in GuestStates, d \in DetailsOutcomes,
          w \in WriteOutcomes :
          LET plugin == phases[pos] = "ProvisionPlugin"
              called == plugin /\ o = "ok" /\ g # "None"
              det    == IF called THEN d ELSE "notcalled"
              raised == PhaseRaised(o, det)
              listed == plugin /\ GuestListed(g, dry)
              gs     == IF listed THEN Append(guests, pos) ELSE guests
              keep   == KeepSave(raised)
              saving == AfterPhase(raised) = "raise" /\ keep
          IN  /\ ~plugin => g = "None"
              /\ (~saving \/ dry) => w = "ok"
              /\ (~called \/ dry) => d = "ok"
              /\ guest' = [guest EXCEPT ![pos] = g]
              /\ guests' = gs
              /\ phaseRuns' = Append(phaseRuns, [go |-> o, details |-> det])
              /\ IF AfterPhase(raised) = "next"
                 THEN /\ pos' = pos + 1
                      /\ UNCHANGED <<ppc, perr, save, saved>>
                 ELSE /\ save' = keep
                      /\ saved' = IF keep THEN SaveStep(saved, gs, dry, w)
                                         ELSE saved
                      /\ perr' = raised
                      /\ ppc' = "raised"
                      /\ pos' = pos
    /\ UNCHANGED <<status, phases, dry, goCalls, entered>>

\* After the last phase: summary, status 'done', save (lines 1307-1309, 1317-1319).
GoFinish ==
    /\ ppc = "phases"
    /\ UNCHANGED <<execVars, dataVars, sshVars, waitVars, runVars, lintVars,
                   checkVars, masterVars, normVars, workdirVars>>
    /\ pos > Len(phases)
    /\ status' = "done"
    /\ \E w \in WriteOutcomes :
          /\ (~save \/ dry) => w = "ok"
          /\ saved' = IF save THEN SaveStep(saved, guests, dry, w) ELSE saved
    /\ ppc' = "returned"
    /\ UNCHANGED <<perr, phases, guest, guests, dry, pos, save, goCalls,
                   entered, phaseRuns>>

ProvisionNext ==
    \/ ProvisionWake
    \/ GoEnter
    \/ PhaseStep
    \/ GoFinish

\* ---------------------------------------------------------------------------
\* Guest data containers
\* ---------------------------------------------------------------------------
\* Field values: None is NoValue, a string or a number v is Some(v), and a list
\* is ListOf(items), so that the empty list differs from None.
ListOf(items) == <<"list">> \o items

\* The guest data classes: Guest._data_class is GuestData, GuestSsh's is
\* GuestSshData.
DataClasses == {"GuestData", "GuestSshData"}

\* The dataclass fields of GuestData, and those GuestSshData adds.
Keys(cls) ==
    IF cls = "GuestData"
    THEN {"role", "guest"}
    ELSE {"role", "guest", "port", "user", "key", "password", "ssh_option"}

\* The field defaults: None, and an empty list by default_factory=list.
FieldDefault(key) ==
    IF key \in {"key", "ssh_option"} THEN ListOf(<<>>) ELSE NoValue

\* The values a guest attribute of each type can hold.
FieldValues(key) ==
    IF key \in {"key", "ssh_option"}
    THEN {ListOf(<<>>), ListOf(<<key>>)}
    ELSE {NoValue, Some(key)}

\* cls(): a container with every field at its default.
NewContainer(cls) ==
    [class |-> cls, fields |-> [k \in Keys(cls) |-> FieldDefault(k)]]

\* SerializableContainer.extract_from: a fresh container receives each
\* attribute of the object that is not None.
ExtractFrom(cls, obj) ==
    [class  |-> cls,
     fields |-> [k \in Keys(cls) |->
                   IF obj.attrs[k] # NoValue
                   THEN obj.attrs[k]
                   ELSE NewContainer(cls).fields[k]]]

\* Guest.save()
GuestSave(obj) == ExtractFrom(obj.data_class, obj)

\* SerializableContainer.to_serialized: the fields as a dictionary (no field of
\* the guest data classes has a serialize callback), and the key '__class__'.
ToSerialized(data) ==
    [k \in DOMAIN data.fields \cup {"__class__"} |->
        IF k = "__class__" THEN Some(data.class) ELSE data.fields[k]]

\* SerializableContainer.from_serialized: '__class__' is popped and the class
\* is built from the remaining keys; the fields a dictionary lacks keep their
\* defaults.
FromSerialized(cls, serialized) ==
    [class  |-> cls,
     fields |-> [k \in Keys(cls) |->
                   IF k \in DOMAIN serialized
                   THEN serialized[k]
                   ELSE FieldDefault(k)]]

\* Faulty variant: the class is not taken from '__class__'.
UnserializeAsBase(serialized) ==
    FromSerialized("GuestData", serialized)

\* SerializableContainer.unserialize: the class is the one '__class__' names.
Unserialize(serialized) ==
    IF "__class__" \notin DOMAIN serialized
    THEN [class |-> "GeneralError", fields |-> <<>>]
    ELSE FromSerialized(serialized["__class__"][1], serialized)

\* SerializableContainer.inject_to: every field becomes an attribute.
InjectTo(data, obj) ==
    [obj EXCEPT !.attrs =
        [k \in DOMAIN obj.attrs \cup DOMAIN data.fields |->
            IF k \in DOMAIN data.fields THEN data.fields[k] ELSE obj.attrs[k]]]

\* Guest.load(data)
GuestLoad(obj, data) == InjectTo(data, obj)

\* A guest of the class that owns the data class, before its __init__ loaded
\* anything.
NewGuest(cls) == [data_class |-> cls, attrs |-> <<>>]

\* No round trip is under way.
DataIdle ==
    trip = [stage |-> "off", guest |-> NoValue, data |-> NoValue,
            serialized |-> NoValue, restored |-> NoValue, loaded |-> NoValue]

\* A guest of either class, its attributes holding any values of their types.
InitData ==
    \E cls \in DataClasses :
        \E attrs \in [Keys(cls) -> UNION {FieldValues(k) : k \in Keys(cls)}] :
            /\ \A k \in Keys(cls) : attrs[k] \in FieldValues(k)
            /\ trip = [stage |-> "guest",
                       guest |-> [data_class |-> cls, attrs |-> attrs],
                       data |-> NoValue, serialized |-> NoValue,
                       restored |-> NoValue, loaded |-> NoValue]

\* guest.save(), in Provision.save
SaveGuest ==
    /\ trip.stage = "guest"
    /\ trip' = [trip EXCEPT !.stage = "saved", !.data = GuestSave(trip.guest)]
    /\ UNCHANGED <<execVars, provVars, sshVars, waitVars, runVars, lintVars,
                   checkVars, masterVars, normVars, workdirVars>>

\* .to_serialized(), in Provision.save
SerializeData ==
    /\ trip.stage = "saved"
    /\ trip' = [trip EXCEPT !.stage = "serialized",
                            !.serialized = ToSerialized(trip.data)]
    /\ UNCHANGED <<execVars, provVars, sshVars, waitVars, runVars, lintVars,
                   checkVars, masterVars, normVars, workdirVars>>

\* SerializableContainer.unserialize(guest_data), in Provision.load
UnserializeData ==
    /\ trip.stage = "serialized"
    /\ trip' = [trip EXCEPT !.stage = "restored",
                            !.restored = Unserialize(trip.serialized)]
    /\ UNCHANGED <<execVars, provVars, sshVars, waitVars, runVars, lintVars,
                   checkVars, masterVars, normVars, workdirVars>>

\* A new guest is constructed from the restored data: Guest.__init__ calls
\* self.load(data).
LoadGuest ==
    /\ trip.stage = "restored"
    /\ trip.restored.class \in DataClasses
    /\ trip' = [trip EXCEPT
                  !.stage = "loaded",
                  !.loaded = GuestLoad(NewGuest(trip.restored.class),
                                       trip.restored)]
    /\ UNCHANGED <<execVars, provVars, sshVars, waitVars, runVars, lintVars,
                   checkVars, masterVars, normVars, workdirVars>>

DataNext ==
    \/ SaveGuest
    \/ SerializeData
    \/ UnserializeData
    \/ LoadGuest

\* ---------------------------------------------------------------------------
\* GuestSsh: execute(), push() and pull()
\* ---------------------------------------------------------------------------
\* Largest number of calls made on one guest.
MaxCalls == 3

DEFAULT_RSYNC_PUSH_OPTIONS ==
    <<"-s", "-R", "-r", "-z", "--links", "--safe-links", "--delete">>

DEFAULT_RSYNC_PULL_OPTIONS ==
    <<"-s", "-R", "-r", "-z", "--links", "--safe-links", "--protect-args">>

\* How a command run on the guest, or an rsync run locally, ends.
RunOutcomes == {"ok", "RunError"}

\* The option lists a caller passes: none, an empty list, or a list of its own.
OptionArgs == {NoValue, Some(<<>>), Some(<<"-a">>)}

\* The extend_options a caller of pull() passes: none, or the exclude of the
\* beakerlib backup directory.
ExtendArgs == {NoValue, Some(<<"--exclude">>)}

\* 'options or DEFAULT': None and the empty list both select the default list.
UsesDefault(options) == options = NoValue \/ options = Some(<<>>)

\* The subprocesses: the ssh master connection, a command run on the guest over
\* ssh, and rsync with its options.
MasterCommand == [cmd |-> "ssh -MNnT", options |-> <<>>]

Remote(command) == [cmd |-> command, options |-> <<>>]

Rsync(options) == [cmd |-> "rsync", options |-> options]

\* _ssh_master_connection: the master process is started by subprocess.Popen
\* unless the guest holds one.
StartMaster(master) == IF master THEN <<>> ELSE <<MasterCommand>>

\* Common.run: in dry mode it returns before a process is started.
Run(isDry, command) == IF isDry THEN <<>> ELSE <<command>>

\* 'if self.guest is None: if not self.opt(dry): raise GeneralError'
GuestUnavailable(s) == ~s.address /\ ~s.dry

\* The install command of _check_rsync: '{package_manager} install -y rsync',
\* under /root/pkg on a read-only distribution.
InstallCommand(manager, readonly) ==
    Remote(IF manager = "dnf"
           THEN (IF readonly THEN "dnf install -y rsync --installroot=/root/pkg"
                 ELSE "dnf install -y rsync")
           ELSE (IF readonly THEN "yum install -y rsync --installroot=/root/pkg"
                 ELSE "yum install -y rsync"))

\* Faulty variant: the package manager is not detected, yum is used.
CheckRsyncYumOnly(o) ==
    IF o.probe = "ok"
    THEN [cmds |-> <<Remote("rsync --version")>>,
          result |-> "ALREADY_INSTALLED"]
    ELSE [cmds |-> <<Remote("rsync --version"),
                     Remote("dnf --version"),
                     Remote("rpm-ostree --version"),
                     InstallCommand("yum", o.ostree = "ok")>>,
          result |-> IF o.install = "ok" THEN "INSTALLED" ELSE "RunError"]

\* GuestSsh._check_rsync: the commands it runs on the guest and what it
\* returns, given how the probe (rsync --version), dnf --version,
\* rpm-ostree --version and the install command end.
CheckRsync(o) ==
    IF o.probe = "ok"
    THEN [cmds |-> <<Remote("rsync --version")>>,
          result |-> "ALREADY_INSTALLED"]
    ELSE [cmds |-> <<Remote("rsync --version"),
                     Remote("dnf --version"),
                     Remote("rpm-ostree --version"),
                     InstallCommand(IF o.dnf = "ok" THEN "dnf" ELSE "yum",
                                    o.ostree = "ok")>>,
          result |-> IF o.install = "ok" THEN "INSTALLED" ELSE "RunError"]

\* Faulty variant: rsync is tried again whatever _check_rsync did.
SyncAlwaysRetrying(options, o) ==
    IF o.first = "ok"
    THEN [cmds |-> <<Rsync(options)>>, result |-> "returned"]
    ELSE [cmds |-> <<Rsync(options)>> \o CheckRsync(o).cmds
                   \o <<Rsync(options)>>,
          result |-> IF o.second = "ok" THEN "returned" ELSE "RunError"]

\* 'Try to push twice, check for rsync after the first failure' (and the same
\* in pull): the subprocesses and the result, given how the two rsync attempts
\* and the commands of _check_rsync end.
Sync(options, o) ==
    IF o.first = "ok"
    THEN [cmds |-> <<Rsync(options)>>, result |-> "returned"]
    ELSE IF CheckRsync(o).result # "INSTALLED"
    THEN [cmds |-> <<Rsync(options)>> \o CheckRsync(o).cmds,
          result |-> "RunError"]
    ELSE [cmds |-> <<Rsync(options)>> \o CheckRsync(o).cmds
                   \o <<Rsync(options)>>,
          result |-> IF o.second = "ok" THEN "returned" ELSE "RunError"]

\* How the commands of one push() or pull() end.
RsyncOutcomes ==
    [first : RunOutcomes, probe : RunOutcomes, dnf : RunOutcomes,
     ostree : RunOutcomes, install : RunOutcomes, second : RunOutcomes]

\* In dry mode Common.run starts nothing, so nothing fails.
AllOk ==
    [first |-> "ok", probe |-> "ok", dnf |-> "ok", ostree |-> "ok",
     install |-> "ok", second |-> "ok"]

NoCall ==
    [op |-> "none", options |-> NoValue, extend |-> NoValue, cmds |-> <<>>,
     result |-> "none", output |-> NoValue, outcomes |-> AllOk]

\* A call that raised the guest-unavailable error before anything else.
Unavailable(op, options, extend) ==
    [op |-> op, options |-> options, extend |-> extend, cmds |-> <<>>,
     result |-> "GeneralError", output |-> NoValue, outcomes |-> AllOk]

\* GuestSsh.execute(command)
SshExecute ==
    /\ rb.pc = "idle"
    /\ ncalls < MaxCalls
    /\ ncalls' = ncalls + 1
    /\ \E o \in RunOutcomes :
          /\ ssh.dry => o = "ok"
          /\ IF GuestUnavailable(ssh)
             THEN /\ call' = Unavailable("execute", NoValue, NoValue)
                  /\ ssh' = ssh
             ELSE /\ call' =
                       [op |-> "execute", options |-> NoValue,
                        extend |-> NoValue,
                        cmds |-> StartMaster(ssh.master)
                                 \o Run(ssh.dry, Remote("command")),
                        result |-> IF o = "ok" THEN "returned" ELSE o,
                        output |-> IF ssh.dry \/ o # "ok"
                                   THEN NoValue ELSE Some("stdout"),
                        outcomes |-> [AllOk EXCEPT !.first = o]]
                  /\ ssh' = [ssh EXCEPT !.master = TRUE]
    /\ UNCHANGED <<defaults, rb>>
    /\ UNCHANGED <<execVars, provVars, dataVars, waitVars, runVars,
                   lintVars, checkVars, masterVars, normVars,
                   workdirVars>>

\* What push() and pull() do once the option list is chosen: the master
\* connection is checked when the first rsync command line is built.
SyncCall(op, options, extend, used, o) ==
    [op |-> op, options |-> options, extend |-> extend,
     cmds |-> StartMaster(ssh.master)
              \o (IF ssh.dry THEN <<>> ELSE Sync(used, o).cmds),
     result |-> Sync(used, o).result,
     output |-> NoValue,
     outcomes |-> o]

\* GuestSsh.push(options=...)
SshPush ==
    /\ rb.pc = "idle"
    /\ ncalls < MaxCalls
    /\ ncalls' = ncalls + 1
    /\ \E options \in OptionArgs, o \in RsyncOutcomes :
          /\ ssh.dry => o = AllOk
          /\ IF GuestUnavailable(ssh)
             THEN /\ call' = Unavailable("push", options, NoValue)
                  /\ ssh' = ssh
             ELSE /\ call' = SyncCall("push", options, NoValue,
                                      IF UsesDefault(options)
                                      THEN defaults.push ELSE options[1], o)
                  /\ ssh' = [ssh EXCEPT !.master = TRUE]
    /\ UNCHANGED <<defaults, rb>>
    /\ UNCHANGED <<execVars, provVars, dataVars, waitVars, runVars,
                   lintVars, checkVars, masterVars, normVars,
                   workdirVars>>

\* 'options = options or DEFAULT_RSYNC_PULL_OPTIONS; if extend_options is not
\* None: options.extend(extend_options)': the list rsync is given.
PullOptions(options, extend, default) ==
    (IF UsesDefault(options) THEN default ELSE options[1])
    \o (IF extend = NoValue THEN <<>> ELSE extend[1])

\* DEFAULT_RSYNC_PULL_OPTIONS after the call: options.extend() works in place,
\* on the module's list when no list of the caller was chosen.
PullDefaultAfter(options, extend, default) ==
    IF UsesDefault(options) THEN PullOptions(options, extend, default)
    ELSE default

\* GuestSsh.pull(options=..., extend_options=...)
SshPull ==
    /\ rb.pc = "idle"
    /\ ncalls < MaxCalls
    /\ ncalls' = ncalls + 1
    /\ \E options \in OptionArgs, extend \in ExtendArgs, o \in RsyncOutcomes :
          /\ ssh.dry => o = AllOk
          /\ IF GuestUnavailable(ssh)
             THEN /\ call' = Unavailable("pull", options, extend)
                  /\ ssh' = ssh
                  /\ defaults' = defaults
             ELSE /\ call' = SyncCall("pull", options, extend,
                                      PullOptions(options, extend,
                                                  defaults.pull), o)
                  /\ ssh' = [ssh EXCEPT !.master = TRUE]
                  /\ defaults' =
                       [defaults EXCEPT
                          !.pull = PullDefaultAfter(options, extend,
                                                    defaults.pull)]
    /\ UNCHANGED rb
    /\ UNCHANGED <<execVars, provVars, dataVars, waitVars, runVars,
                   lintVars, checkVars, masterVars, normVars,
                   workdirVars>>

SshNext ==
    \/ SshExecute
    \/ SshPush
    \/ SshPull

\* ---------------------------------------------------------------------------
\* GuestSsh.reboot() and utils.wait()
\* ---------------------------------------------------------------------------
\* Timeout in seconds of waiting for a connection after reboot: 5 * 60.
CONNECTION_TIMEOUT == 300

\* Largest tick (seconds between two attempts) a caller passes.
MaxTick == 2

\* Largest tick_increase a caller passes.
MaxTickIncrease == 2

\* Longest time (seconds) reading the boot time from the guest takes.
MaxCheckTime == 1

\* btime values of /proc/stat.
BootTimes == {1, 2}

\* What get_boot_time() ends with: the boot time, the RunError of execute(),
\* AssertionError for an empty output, ProvisionError for an output without
\* btime.
BootRead(btime) == [kind |-> "btime", btime |-> btime]

FailedRead(kind) == [kind |-> kind, btime |-> 0]

Reads ==
    {BootRead(b) : b \in BootTimes}
    \cup {FailedRead(k) : k \in {"RunError", "AssertionError",
                                 "ProvisionError"}}

\* Exit codes of the reboot command: success, another failure, and the one of
\* a connection closed by the remote host.
ExitCodes == {0, 1, 255}

\* The arguments of reboot(): the timeout (None, or seconds), the command.
TimeoutArgs == {NoValue} \cup {Some(t) : t \in 0..MaxTimeout}

CommandArgs == {NoValue, Some("custom")}

\* 'command = command or Command("reboot")'
RebootCommand(command) ==
    Remote(IF command = NoValue THEN "reboot" ELSE command[1])

\* Faulty variant: a hard reboot is carried out like a soft one.
HardIgnored(hard) == FALSE

\* 'if hard: raise ProvisionError("Method does not support hard reboot.")'
HardUnsupported(hard) == hard

\* 'timeout = timeout or CONNECTION_TIMEOUT'
RebootTimeout(timeout) ==
    IF timeout = NoValue \/ timeout = Some(0)
    THEN CONNECTION_TIMEOUT
    ELSE timeout[1]

\* 'try: self.execute(command) except RunError: if error.returncode == 255:
\* ignore, else: raise'
CommandIssued(exit) == exit = 0 \/ exit = 255

\* check_boot_time(): returns on a new boot time; the same boot time and a
\* RunError of the read raise WaitingIncomplete; other exceptions of
\* get_boot_time() pass through.
CheckBootTime(read, current_boot_time) ==
    IF read.kind = "btime"
    THEN (IF read.btime # current_boot_time THEN "returned"
          ELSE "WaitingIncomplete")
    ELSE IF read.kind = "RunError" THEN "WaitingIncomplete"
    ELSE read.kind

\* Faulty variant: a check that returned is not compared with the deadline.
WaitAttemptNoLateCheck(check, at, deadline) ==
    check

\* One attempt of wait() that called check(): 'ret = check(); now = NOW();
\* if now > deadline: raise WaitingTimedOutError(check_success=True);
\* return ret'; WaitingIncomplete leads to a sleep, other exceptions leave
\* wait().
WaitAttempt(check, at, deadline) ==
    IF check = "returned" /\ at > deadline
    THEN "WaitingTimedOutError"
    ELSE check

\* Faulty variant: every exception of wait() gives False.
RebootResultCatchesAll(waited) ==
    IF waited = "returned" THEN "True" ELSE "False"

\* 'try: wait(...) except WaitingTimedOutError: return False ... return True'
RebootResult(waited) ==
    CASE waited = "returned" -> "True"
      [] waited = "WaitingTimedOutError" -> "False"
      [] OTHER -> waited

NoRead == [read |-> FailedRead("none"), at |-> 0]

NoReboot ==
    [pc |-> "idle", hard |-> FALSE, command |-> NoValue, timeout |-> NoValue,
     exit |-> 0, current_boot_time |-> 0, now |-> 0, deadline |-> 0,
     tick |-> 0, tick_increase |-> 0, last |-> NoRead]

\* reboot() ended before wait() was called.
RebootEnded(cmds, how) ==
    [op |-> "reboot", options |-> NoValue, extend |-> NoValue, cmds |-> cmds,
     result |-> how, output |-> NoValue, outcomes |-> AllOk]

\* GuestSsh.reboot(hard, command, timeout, tick, tick_increase), up to the
\* call of wait(): the hard check, get_boot_time(), the reboot command, and
\* the entry of wait(), which computes the deadline.
RebootStart ==
    /\ rb.pc = "idle"
    /\ ncalls < MaxCalls
    /\ ncalls' = ncalls + 1
    /\ \E hard \in BOOLEAN, command \in CommandArgs, timeout \in TimeoutArgs,
          tick \in 1..MaxTick, increase \in 1..MaxTickIncrease,
          read \in Reads, exit \in ExitCodes :
          LET args == [NoReboot EXCEPT !.hard = hard, !.command = command,
                                       !.timeout = timeout, !.tick = tick,
                                       !.tick_increase = increase]
              first == StartMaster(ssh.master)
                       \o Run(ssh.dry, Remote("cat /proc/stat"))
          IN  IF HardUnsupported(hard)
              THEN /\ call' = RebootEnded(<<>>, "ProvisionError")
                   /\ rb' = [args EXCEPT !.pc = "ended"]
                   /\ ssh' = ssh
              ELSE IF GuestUnavailable(ssh)
              THEN /\ call' = RebootEnded(<<>>, "GeneralError")
                   /\ rb' = [args EXCEPT !.pc = "ended"]
                   /\ ssh' = ssh
              ELSE IF ssh.dry
              THEN /\ call' = RebootEnded(first, "AssertionError")
                   /\ rb' = [args EXCEPT !.pc = "ended"]
                   /\ ssh' = [ssh EXCEPT !.master = TRUE]
              ELSE IF read.kind # "btime"
              THEN /\ call' = RebootEnded(first, read.kind)
                   /\ rb' = [args EXCEPT !.pc = "ended"]
                   /\ ssh' = [ssh EXCEPT !.master = TRUE]
              ELSE IF ~CommandIssued(exit)
              THEN /\ call' = RebootEnded(first \o <<RebootCommand(command)>>,
                                          "RunError")
                   /\ rb' = [args EXCEPT !.pc = "ended", !.exit = exit,
                                         !.current_boot_time = read.btime]
                   /\ ssh' = [ssh EXCEPT !.master = TRUE]
              ELSE /\ call' = RebootEnded(first \o <<RebootCommand(command)>>,
                                          "waiting")
                   /\ rb' = [args EXCEPT
                               !.pc = "waiting", !.exit = exit,
                               !.current_boot_time = read.btime,
                               !.deadline = RebootTimeout(timeout)]
                   /\ ssh' = [ssh EXCEPT !.master = TRUE]
    /\ UNCHANGED defaults
    /\ UNCHANGED <<execVars, provVars, dataVars, waitVars, runVars,
                   lintVars, checkVars, masterVars, normVars,
                   workdirVars>>

\* One round of the loop of wait(): 'if now > deadline: raise
\* WaitingTimedOutError'; otherwise check_boot_time() is called and reads the
\* boot time, which takes some time; after WaitingIncomplete wait() sleeps for
\* tick seconds and multiplies tick by tick_increase.
WaitRound ==
    /\ rb.pc = "waiting"
    /\ IF rb.now > rb.deadline
       THEN /\ call' = [call EXCEPT
                          !.result = RebootResult("WaitingTimedOutError")]
            /\ rb' = [rb EXCEPT !.pc = "ended"]
       ELSE \E read \in Reads, took \in 0..MaxCheckTime :
               LET at == rb.now + took
                   waited == WaitAttempt(
                                CheckBootTime(read, rb.current_boot_time),
                                at, rb.deadline)
                   polled == [rb EXCEPT !.last = [read |-> read, at |-> at]]
               IN  IF waited = "WaitingIncomplete"
                   THEN /\ rb' = [polled EXCEPT
                                    !.now = at + rb.tick,
                                    !.tick = rb.tick * rb.tick_increase]
                        /\ call' = call
                   ELSE /\ rb' = [polled EXCEPT !.pc = "ended", !.now = at]
                        /\ call' = [call EXCEPT
                                      !.result = RebootResult(waited)]
    /\ UNCHANGED <<ssh, defaults, ncalls>>
    /\ UNCHANGED <<execVars, provVars, dataVars, waitVars, runVars,
                   lintVars, checkVars, masterVars, normVars,
                   workdirVars>>

\* reboot() has returned or raised: the guest can be called again.
RebootReturn ==
    /\ rb.pc = "ended"
    /\ rb' = NoReboot
    /\ UNCHANGED <<ssh, defaults, call, ncalls>>
    /\ UNCHANGED <<execVars, provVars, dataVars, waitVars, runVars,
                   lintVars, checkVars, masterVars, normVars,
                   workdirVars>>

RebootNext ==
    \/ RebootStart
    \/ WaitRound
    \/ RebootReturn

\* ---------------------------------------------------------------------------
\* utils.wait()
\* ---------------------------------------------------------------------------
\* Longest timeout (seconds) a caller of wait() passes.
MaxWait == 3

\* What a call of check() does: it returns a value, asks for more time, or
\* raises another exception.
Returned(value) == [kind |-> "returned", value |-> value]

Raised(exception) == [kind |-> exception, value |-> "None"]

CheckOutcomes ==
    {Returned(v) : v \in {"a", "b"}}
    \cup {Raised(x) : x \in {"WaitingIncomplete", "ProvisionError"}}

NoCheck == [check |-> Raised("none"), at |-> 0]

\* Faulty variant: a tick that is not positive is accepted.
TickAccepted(tick) == FALSE

\* 'if tick <= 0: raise GeneralError'
TickRejected(tick) == tick <= 0

\* Faulty variant: wait() gives up at its first attempt.
DeadlineAlwaysPassed(now, deadline) == TRUE

\* Faulty variant: wait() gives up when the deadline is reached.
DeadlinePassedAtDeadline(now, deadline) == now >= deadline

\* 'if now > deadline: raise WaitingTimedOutError(check, timeout)'
DeadlinePassed(now, deadline) == now > deadline

\* Faulty variant: the tick is not multiplied.
NextTickSame(tick, tick_increase) == tick

\* 'tick *= tick_increase'
NextTick(tick, tick_increase) == tick * tick_increase

NoWait ==
    [pc |-> "idle", timeout |-> 0, tick |-> 0, tick_increase |-> 0,
     now |-> 0, deadline |-> 0, cur |-> 0, checks |-> 0, sleeps |-> <<>>,
     last |-> NoCheck, result |-> "none", check_success |-> FALSE,
     ret |-> "None"]

\* wait() is not in use.
WaitIdle == wt = NoWait

\* wait(parent, check, timeout, tick, tick_increase) is called.
InitWait ==
    \E timeout \in 0..MaxWait, tick \in (0 - 1)..MaxTick,
       increase \in 1..MaxTickIncrease :
        wt = [NoWait EXCEPT !.pc = "called", !.timeout = timeout,
                            !.tick = tick, !.tick_increase = increase]

\* The statements of wait() before its loop: the tick is checked and the
\* deadline is computed, once.
WaitEnter ==
    /\ wt.pc = "called"
    /\ wt' = IF TickRejected(wt.tick)
             THEN [wt EXCEPT !.pc = "ended", !.result = "GeneralError"]
             ELSE [wt EXCEPT !.pc = "looping", !.cur = wt.tick,
                             !.deadline = wt.now + wt.timeout]
    /\ UNCHANGED <<execVars, provVars, dataVars, sshVars, runVars, lintVars,
                   checkVars, masterVars, normVars, workdirVars>>

\* One round of 'while True': the deadline test, the call of check(), which
\* takes some time, the second deadline test after a check that returned, and
\* after WaitingIncomplete the sleep and the new tick.
WaitLoop ==
    /\ wt.pc = "looping"
    /\ IF DeadlinePassed(wt.now, wt.deadline)
       THEN wt' = [wt EXCEPT !.pc = "ended",
                             !.result = "WaitingTimedOutError",
                             !.check_success = FALSE]
       ELSE \E check \in CheckOutcomes, took \in 0..MaxCheckTime :
               LET at == wt.now + took
                   waited == WaitAttempt(check.kind, at, wt.deadline)
                   called == [wt EXCEPT !.checks = wt.checks + 1,
                                        !.last = [check |-> check, at |-> at],
                                        !.now = at]
               IN  wt' =
                     CASE waited = "WaitingIncomplete" ->
                            [called EXCEPT
                               !.now = at + wt.cur,
                               !.sleeps = Append(wt.sleeps, wt.cur),
                               !.cur = NextTick(wt.cur, wt.tick_increase)]
                       [] waited = "returned" ->
                            [called EXCEPT !.pc = "ended",
                                           !.result = "returned",
                                           !.ret = check.value]
                       [] waited = "WaitingTimedOutError" ->
                            [called EXCEPT !.pc = "ended",
                                           !.result = waited,
                                           !.check_success = TRUE]
                       [] OTHER ->
                            [called EXCEPT !.pc = "ended",
                                           !.result = waited]
    /\ UNCHANGED <<execVars, provVars, dataVars, sshVars, runVars, lintVars,
                   checkVars, masterVars, normVars, workdirVars>>

WaitNext ==
    \/ WaitEnter
    \/ WaitLoop

\* ---------------------------------------------------------------------------
\* Common.run() and Common._run()
\* ---------------------------------------------------------------------------
\* Largest number of lines a command writes.
MaxLines == 2

\* Exit codes of a command that ends on its own.
CommandExitCodes == {0, 1, 2}

\* RunError(message, command, returncode, stdout, stderr)
RunError(command, code, stdout, stderr) ==
    [command |-> command, returncode |-> code,
     stdout |-> stdout, stderr |-> stderr]

\* Faulty variant: the new error does not take over the captured output.
RewrapWithoutOutput(error) ==
    RunError(error.command, error.returncode, NoValue, NoValue)

\* run(): 'except RunError as error: raise RunError(message, error.command,
\* error.returncode, error.stdout, error.stderr, caller=self)'
Rewrap(error) ==
    RunError(error.command, error.returncode, error.stdout, error.stderr)

\* CommandOutput(stdout, stderr)
CommandOutput(stdout, stderr) == [stdout |-> stdout, stderr |-> stderr]

\* 'process.returncode = PROCESS_TIMEOUT' after the kill.
ReturncodeAfterKill(code) == PROCESS_TIMEOUT

\* The process group os.killpg signals: the child (Popen was called with
\* start_new_session=True, so the child leads its own group) and those of its
\* descendants that stayed in the group; a descendant that left the group is
\* not signalled.
Killpg(p) == [p EXCEPT !.alive = FALSE, !.killpg = p.killpg + 1]

\* The StreamLogger threads _run() starts: one for stdout, and one for stderr
\* unless stderr is merged into stdout (join=True).
Readers(join) == IF join THEN {"out"} ELSE {"out", "err"}

\* Faulty variant: _run() goes on without waiting for the readers.
ReadersNotJoined(p) == TRUE

\* stdout_thread.join() and stderr_thread.join() have returned: the threads
\* started have finished.
ReadersJoined(p) == p.finished = p.started

\* The stream readers reach the end of their pipes when no process holds the
\* write ends any more.
PipesClosed(p) == ~p.alive /\ ~p.escaped

\* What the readers hand over: with join=True stderr is merged into stdout
\* and stderr_thread is stdout_thread.
CapturedStdout(p) == Some(p.lines)

CapturedStderr(p) == IF p.join THEN Some(p.lines) ELSE Some(p.errlines)

\* 'Handle the exit code, return output'
RunEnd(p) ==
    IF p.returncode # 0
    THEN [p EXCEPT !.pc = "ended", !.result = "RunError",
                   !.error = Some(Rewrap(RunError(p.command, p.returncode,
                                                  CapturedStdout(p),
                                                  CapturedStderr(p))))]
    ELSE [p EXCEPT !.pc = "ended", !.result = "returned",
                   !.output = CommandOutput(
                                 CapturedStdout(p),
                                 IF p.join THEN NoValue
                                 ELSE CapturedStderr(p))]

NoRun ==
    [pc |-> "idle", command |-> "None", dry |-> FALSE, cwd |-> TRUE,
     interactive |-> FALSE, join |-> FALSE, timeout |-> FALSE,
     found |-> TRUE, alive |-> FALSE, escaped |-> FALSE, exit |-> 0,
     fired |-> FALSE, returncode |-> 0, lines |-> <<>>, errlines |-> <<>>,
     pipe |-> <<>>, errpipe |-> <<>>, started |-> {}, finished |-> {},
     popen |-> 0, killpg |-> 0, result |-> "none", error |-> NoValue,
     output |-> CommandOutput(NoValue, NoValue)]

\* run() is not in use.
RunIdle == proc = NoRun

\* run(command, ...) is called: in or out of dry mode, with an existing
\* working directory or not, interactive or not, with join and timeout or not,
\* for a command that can be started or not and that leaves a descendant
\* outside its process group or not.
InitRun ==
    \E command \in {"test.sh", "rsync"},
       isDry \in BOOLEAN, cwd \in BOOLEAN, interactive \in BOOLEAN,
       join \in BOOLEAN, timeout \in BOOLEAN, found \in BOOLEAN,
       escapes \in BOOLEAN :
        proc = [NoRun EXCEPT !.pc = "called", !.command = command,
                             !.dry = isDry, !.cwd = cwd,
                             !.interactive = interactive, !.join = join,
                             !.timeout = timeout, !.found = found,
                             !.escaped = escapes]

\* run() up to the process.wait() of _run(): the dry test, the working
\* directory test, the interactive branch, and subprocess.Popen.
RunCall ==
    /\ proc.pc = "called"
    /\ proc' =
         IF proc.dry
         THEN [proc EXCEPT !.pc = "ended", !.result = "returned",
                           !.escaped = FALSE]
         ELSE IF ~proc.cwd
         THEN [proc EXCEPT !.pc = "ended", !.result = "GeneralError",
                           !.escaped = FALSE]
         ELSE IF proc.interactive
         THEN [proc EXCEPT !.pc = "ended", !.result = "returned",
                           !.escaped = FALSE]
         ELSE IF ~proc.found
         THEN [proc EXCEPT !.pc = "ended", !.result = "RunError",
                           !.popen = proc.popen + 1, !.escaped = FALSE,
                           !.error = Some(Rewrap(RunError(proc.command, 127,
                                                          NoValue, NoValue)))]
         ELSE [proc EXCEPT !.pc = "running", !.alive = TRUE,
                           !.popen = proc.popen + 1,
                           !.started = Readers(proc.join)]
    /\ UNCHANGED <<execVars, provVars, dataVars, sshVars, waitVars,
                   lintVars, checkVars, masterVars, normVars,
                   workdirVars>>

\* A process holding the pipes writes a line to stdout or to stderr.
ProcessWrites ==
    /\ proc.pc \in {"running", "expired", "reading"}
    /\ proc.alive \/ proc.escaped
    /\ Len(proc.lines) + Len(proc.errlines)
         + Len(proc.pipe) + Len(proc.errpipe) < MaxLines
    /\ \E stream \in {"out", "err"} :
          proc' = IF stream = "out" \/ proc.join
                  THEN [proc EXCEPT !.pipe = Append(proc.pipe, stream)]
                  ELSE [proc EXCEPT !.errpipe = Append(proc.errpipe, stream)]
    /\ UNCHANGED <<execVars, provVars, dataVars, sshVars, waitVars,
                   lintVars, checkVars, masterVars, normVars,
                   workdirVars>>

\* The command ends on its own.
ProcessExits ==
    /\ proc.pc \in {"running", "expired"}
    /\ proc.alive
    /\ \E code \in CommandExitCodes :
          proc' = [proc EXCEPT !.alive = FALSE, !.exit = code]
    /\ UNCHANGED <<execVars, provVars, dataVars, sshVars, waitVars,
                   lintVars, checkVars, masterVars, normVars,
                   workdirVars>>

\* The descendant outside the process group ends.
DescendantExits ==
    /\ proc.pc \in {"running", "expired", "reading"}
    /\ proc.escaped
    /\ proc' = [proc EXCEPT !.escaped = FALSE]
    /\ UNCHANGED <<execVars, provVars, dataVars, sshVars, waitVars,
                   lintVars, checkVars, masterVars, normVars,
                   workdirVars>>

\* process.wait(timeout=timeout) returns: the command has ended.
WaitReturns ==
    /\ proc.pc = "running"
    /\ ~proc.alive
    /\ proc' = [proc EXCEPT !.pc = "reading", !.returncode = proc.exit]
    /\ UNCHANGED <<execVars, provVars, dataVars, sshVars, waitVars,
                   lintVars, checkVars, masterVars, normVars,
                   workdirVars>>

\* process.wait(timeout=timeout) raises TimeoutExpired: the command is still
\* running when the timeout elapses.
TimeoutExpires ==
    /\ proc.pc = "running"
    /\ proc.alive
    /\ proc.timeout
    /\ proc' = [proc EXCEPT !.pc = "expired", !.fired = TRUE]
    /\ UNCHANGED <<execVars, provVars, dataVars, sshVars, waitVars,
                   lintVars, checkVars, masterVars, normVars,
                   workdirVars>>

\* 'except subprocess.TimeoutExpired': os.killpg(..., SIGKILL),
\* process.wait(), process.returncode = PROCESS_TIMEOUT.
KillGroup ==
    /\ proc.pc = "expired"
    /\ proc' = [Killpg(proc) EXCEPT
                  !.pc = "reading",
                  !.returncode = ReturncodeAfterKill(proc.exit)]
    /\ UNCHANGED <<execVars, provVars, dataVars, sshVars, waitVars,
                   lintVars, checkVars, masterVars, normVars,
                   workdirVars>>

\* StreamLogger.run(): 'for _line in self.stream' takes the next line of the
\* reader's pipe and appends it to its output.
ReaderReads ==
    /\ \E reader \in proc.started \ proc.finished :
          IF reader = "out"
          THEN /\ proc.pipe # <<>>
               /\ proc' = [proc EXCEPT !.lines = Append(proc.lines,
                                                        Head(proc.pipe)),
                                       !.pipe = Tail(proc.pipe)]
          ELSE /\ proc.errpipe # <<>>
               /\ proc' = [proc EXCEPT !.errlines = Append(proc.errlines,
                                                           Head(proc.errpipe)),
                                       !.errpipe = Tail(proc.errpipe)]
    /\ UNCHANGED <<execVars, provVars, dataVars, sshVars, waitVars,
                   lintVars, checkVars, masterVars, normVars,
                   workdirVars>>

\* StreamLogger.run() ends: its pipe is closed and nothing is left in it.
ReaderEnds ==
    /\ PipesClosed(proc)
    /\ \E reader \in proc.started \ proc.finished :
          /\ (IF reader = "out" THEN proc.pipe ELSE proc.errpipe) = <<>>
          /\ proc' = [proc EXCEPT !.finished = proc.finished \cup {reader}]
    /\ UNCHANGED <<execVars, provVars, dataVars, sshVars, waitVars,
                   lintVars, checkVars, masterVars, normVars,
                   workdirVars>>

\* stdout_thread.join() and stderr_thread.join() return, and the exit code is
\* handled.
JoinReaders ==
    /\ proc.pc = "reading"
    /\ ReadersJoined(proc)
    /\ proc' = RunEnd(proc)
    /\ UNCHANGED <<execVars, provVars, dataVars, sshVars, waitVars,
                   lintVars, checkVars, masterVars, normVars,
                   workdirVars>>

\* The statements of run() and _run().
RunSteps ==
    \/ RunCall
    \/ WaitReturns
    \/ KillGroup
    \/ JoinReaders

\* The statements of the reader threads.
ReaderSteps ==
    \/ ReaderReads
    \/ ReaderEnds

RunNext ==
    \/ RunSteps
    \/ ReaderSteps
    \/ ProcessWrites
    \/ ProcessExits
    \/ DescendantExits
    \/ TimeoutExpires

\* ---------------------------------------------------------------------------
\* Lint commands
\* ---------------------------------------------------------------------------
\* Largest number of tests, of plans and of stories in the tree.
MaxItems == 2

\* What lint() gives for the items of one kind, in the order of the tree.
ItemLists ==
    UNION {[1..n -> BOOLEAN] : n \in 0..MaxItems}

\* The commands lint forwards to, in its order.
LintCommands == <<"tests_lint", "plans_lint", "stories_lint">>

\* Bitwise or of two naturals ('exit_code |= e.code').
RECURSIVE BitOr(_, _)
BitOr(a, b) ==
    IF a = 0 THEN b
    ELSE IF b = 0 THEN a
    ELSE (IF a % 2 = 1 \/ b % 2 = 1 THEN 1 ELSE 0)
         + 2 * BitOr(a \div 2, b \div 2)

\* Faulty variant: the loop is left at the first item that fails lint.
RECURSIVE LintLoopStopAtFirst(_, _, _, _)
LintLoopStopAtFirst(items, i, exit_code, linted) ==
    IF i > Len(items)
    THEN [exit_code |-> exit_code, linted |-> linted]
    ELSE IF ~items[i]
    THEN [exit_code |-> 1, linted |-> Append(linted, i)]
    ELSE LintLoopStopAtFirst(items, i + 1, exit_code, Append(linted, i))

\* 'for test in context.obj.tree.tests(): if not test.lint(): exit_code = 1'
\* from item i on; linted lists the items lint() was called for.
RECURSIVE LintLoop(_, _, _, _)
LintLoop(items, i, exit_code, linted) ==
    IF i > Len(items)
    THEN [exit_code |-> exit_code, linted |-> linted]
    ELSE LintLoop(items, i + 1,
                  IF ~items[i] THEN 1 ELSE exit_code,
                  Append(linted, i))

\* tests_lint, plans_lint, stories_lint: 'exit_code = 0', the loop,
\* 'raise SystemExit(exit_code)'.
ItemsLint(items) == LintLoop(items, 1, 0, <<>>)

\* lint: 'for command in (tests_lint, plans_lint, stories_lint)' from command
\* k on; every command ends with SystemExit, whose integer code is or-ed in.
RECURSIVE LintAll(_, _, _, _, _)
LintAll(tree, k, exit_code, codes, linted) ==
    IF k > Len(LintCommands)
    THEN [exit_code |-> exit_code, codes |-> codes, linted |-> linted]
    ELSE LET sub == ItemsLint(tree[LintCommands[k]])
         IN  LintAll(tree, k + 1, BitOr(exit_code, sub.exit_code),
                     Append(codes, sub.exit_code),
                     [linted EXCEPT ![LintCommands[k]] = sub.linted])

NoneLinted ==
    [tests_lint |-> <<>>, plans_lint |-> <<>>, stories_lint |-> <<>>]

NoLint ==
    [pc |-> "idle", tree |-> NoneLinted, command |-> "None",
     linted |-> NoneLinted, codes |-> <<>>, exit_code |-> 0]

\* No lint command is in use.
LintIdle == lt = NoLint

\* A tree with up to MaxItems tests, plans and stories.
InitLint ==
    \E tests \in ItemLists, plans \in ItemLists, stories \in ItemLists :
        lt = [NoLint EXCEPT !.pc = "called",
                            !.tree = [tests_lint |-> tests,
                                      plans_lint |-> plans,
                                      stories_lint |-> stories]]

\* One of 'tmt tests lint', 'tmt plans lint', 'tmt stories lint'.
SubLint(command) ==
    /\ lt.pc = "called"
    /\ LET sub == ItemsLint(lt.tree[command])
       IN  lt' = [lt EXCEPT !.pc = "exited", !.command = command,
                            !.linted = [lt.linted EXCEPT ![command] = sub.linted],
                            !.codes = <<sub.exit_code>>,
                            !.exit_code = sub.exit_code]
    /\ UNCHANGED <<execVars, provVars, dataVars, sshVars, waitVars, runVars,
                   checkVars, masterVars, normVars, workdirVars>>

\* 'tmt lint'
Lint ==
    /\ lt.pc = "called"
    /\ LET all == LintAll(lt.tree, 1, 0, <<>>, NoneLinted)
       IN  lt' = [lt EXCEPT !.pc = "exited", !.command = "lint",
                            !.linted = all.linted, !.codes = all.codes,
                            !.exit_code = all.exit_code]
    /\ UNCHANGED <<execVars, provVars, dataVars, sshVars, waitVars, runVars,
                   checkVars, masterVars, normVars, workdirVars>>

LintNext ==
    \/ \E k \in 1..Len(LintCommands) : SubLint(LintCommands[k])
    \/ Lint

\* ---------------------------------------------------------------------------
\* ExecuteInternal.check()
\* ---------------------------------------------------------------------------
\* Values of the 'result' key of a test.
TestResults == {"respect", "custom", "xfail"}

Frameworks == {"shell", "beakerlib"}

Checkers ==
    {"check_custom_results", "check_beakerlib", "check_result_file",
     "check_shell"}

\* What a checker does when called: it returns its results or raises.
CheckerOutcomes ==
    [Checkers -> {Returned("results"), Raised("FileError"),
                  Raised("GeneralError")}]

\* What check() did: the checkers called, in order, and what the last gave.
Checked(called, gave) == [called |-> called, gave |-> gave]

\* 'try: return self.check_result_file(test, guest)
\*  except tmt.utils.FileError: return self.check_shell(test, guest)'
CheckResultFileOrShell(outcomes) ==
    IF outcomes["check_result_file"] = Raised("FileError")
    THEN Checked(<<"check_result_file", "check_shell">>,
                 outcomes["check_shell"])
    ELSE Checked(<<"check_result_file">>, outcomes["check_result_file"])

\* Faulty variant: the framework is looked at before the result type.
CheckResultsFrameworkFirst(test_result, framework, outcomes) ==
    IF framework = "beakerlib"
    THEN Checked(<<"check_beakerlib">>, outcomes["check_beakerlib"])
    ELSE IF test_result = "custom"
    THEN Checked(<<"check_custom_results">>, outcomes["check_custom_results"])
    ELSE CheckResultFileOrShell(outcomes)

\* check(test, guest)
CheckResults(test_result, framework, outcomes) ==
    IF test_result = "custom"
    THEN Checked(<<"check_custom_results">>, outcomes["check_custom_results"])
    ELSE IF framework = "beakerlib"
    THEN Checked(<<"check_beakerlib">>, outcomes["check_beakerlib"])
    ELSE CheckResultFileOrShell(outcomes)

NoChecking ==
    [pc |-> "idle", result |-> "None", framework |-> "None",
     outcomes |-> [c \in Checkers |-> Raised("none")],
     called |-> <<>>, gave |-> Raised("none")]

\* check() is not in use.
CheckIdle == ck = NoChecking

\* A test with its result type and framework.
InitCheck ==
    \E test_result \in TestResults, framework \in Frameworks :
        ck = [NoChecking EXCEPT !.pc = "called", !.result = test_result,
                                !.framework = framework]

\* check() is called; the checkers behave in one of the possible ways.
CheckCall ==
    /\ ck.pc = "called"
    /\ \E outcomes \in CheckerOutcomes :
          LET did == CheckResults(ck.result, ck.framework, outcomes)
          IN  ck' = [ck EXCEPT !.pc = "ended", !.outcomes = outcomes,
                               !.called = did.called, !.gave = did.gave]
    /\ UNCHANGED <<execVars, provVars, dataVars, sshVars, waitVars, runVars,
                   lintVars, masterVars, normVars, workdirVars>>

CheckNext == CheckCall

\* ---------------------------------------------------------------------------
\* GuestSsh: the master connection and stop()
\* ---------------------------------------------------------------------------
\* The methods that build an ssh command line: execute() directly, push() and
\* pull() for 'rsync -e', reboot() through execute().
SshOperations == {"execute", "push", "pull", "reboot"}

\* How self._ssh_master_process.wait(timeout=3) ends after terminate().
TerminateOutcomes == {"exited", "TimeoutExpired"}

\* How self._ssh_socket_path.unlink() ends.
UnlinkOutcomes == {"ok", "OSError"}

\* Faulty variant: the master connection is not looked for.
MasterNeverHeld(m) == FALSE

\* 'if self._ssh_master_process' (lines 624, 902)
MasterHeld(m) == m.process # "None"

\* 'run_dir / "tmt" if run_dir.is_dir() else Path("/tmp")'
SocketDir(run_dir) == IF run_dir THEN "/run/user/uid/tmt" ELSE "/tmp"

\* tempfile.mktemp(dir=socket_dir): a name not given before.
Mktemp(dir, given) == [dir |-> dir, name |-> given + 1]

\* _ssh_socket(): the path is made by tempfile.mktemp once and kept.
SshSocket(m) ==
    IF m.socket_path = NoValue
    THEN [m EXCEPT !.socket_path = Some(Mktemp(SocketDir(m.run_dir), m.mktemp)),
                   !.mktemp = m.mktemp + 1]
    ELSE m

\* _ssh_options(): '-S{self._ssh_socket()}' is among the options of the
\* command line being built; used collects the paths given so.
SshOptions(m) ==
    LET n == SshSocket(m)
    IN  [n EXCEPT !.used = n.used \cup {n.socket_path[1]}]

\* _ssh_master_connection(command)
SshMasterConnection(m) ==
    IF MasterHeld(m)
    THEN m
    ELSE [SshOptions(m) EXCEPT !.process = "Popen", !.alive = m.alive + 1,
                               !.popen = m.popen + 1]

\* _ssh_command()
SshCommand(m) == SshOptions(SshMasterConnection(m))

\* Faulty variant: TimeoutExpired leaves stop().
AfterTerminateRaising(waited) ==
    IF waited = "TimeoutExpired" THEN "TimeoutExpired" ELSE "none"

\* 'except subprocess.TimeoutExpired: pass'
AfterTerminate(waited) == "none"

\* 'except OSError as error: self.debug(...)'
AfterUnlink(unlinked) == "none"

NoStop ==
    [held |-> FALSE, waited |-> "none", found |-> FALSE,
     unlinked |-> "none", raised |-> "none"]

NoMaster ==
    [pc |-> "idle", run_dir |-> FALSE, process |-> "None", alive |-> 0,
     socket_path |-> NoValue,
     socket |-> FALSE, mktemp |-> 0, popen |-> 0, used |-> {}, ncalls |-> 0,
     last |-> "none", stopped |-> NoStop]

\* No master connection is modelled.
MasterIdle == ms = NoMaster

\* A guest that made no ssh connection yet, on a machine with or without the
\* user's runtime directory.
InitMaster ==
    \E run_dir \in BOOLEAN :
        ms = [NoMaster EXCEPT !.pc = "ready", !.run_dir = run_dir]

\* execute(), push(), pull() or reboot(): each builds one or two command
\* lines with _ssh_command().
SshOperation ==
    /\ ms.pc = "ready"
    /\ ms.ncalls < MaxCalls
    /\ \E op \in SshOperations, twice \in BOOLEAN :
          LET once == SshCommand(ms)
              done == IF twice THEN SshCommand(once) ELSE once
          IN  ms' = [done EXCEPT !.ncalls = ms.ncalls + 1, !.last = op,
                                 !.stopped = NoStop]
    /\ UNCHANGED <<execVars, provVars, dataVars, sshVars, waitVars, runVars,
                   lintVars, checkVars, normVars, workdirVars>>

\* The master process creates its control socket.
MasterListens ==
    /\ ms.pc = "ready"
    /\ ms.alive > 0
    /\ ~ms.socket
    /\ ms' = [ms EXCEPT !.socket = TRUE]
    /\ UNCHANGED <<execVars, provVars, dataVars, sshVars, waitVars, runVars,
                   lintVars, checkVars, normVars, workdirVars>>

\* The master process ends on its own, removing its control socket or not.
MasterExits ==
    /\ ms.pc = "ready"
    /\ ms.alive > 0
    /\ \E removes \in BOOLEAN :
          ms' = [ms EXCEPT !.alive = ms.alive - 1,
                           !.socket = IF removes THEN FALSE ELSE ms.socket]
    /\ UNCHANGED <<execVars, provVars, dataVars, sshVars, waitVars, runVars,
                   lintVars, checkVars, normVars, workdirVars>>

\* stop()
SshStop ==
    /\ ms.pc = "ready"
    /\ ms.ncalls < MaxCalls
    /\ \E waited \in (IF ms.alive > 0 THEN TerminateOutcomes ELSE {"exited"}),
          unlinked \in UnlinkOutcomes :
          LET held == MasterHeld(ms)
              exits == held /\ ms.alive > 0 /\ waited = "exited"
              first == IF held THEN AfterTerminate(waited) ELSE "none"
              found == first = "none" /\ ms.socket_path # NoValue /\ ms.socket
              second == IF found THEN AfterUnlink(unlinked) ELSE "none"
          IN  ms' = [ms EXCEPT
                  !.ncalls = ms.ncalls + 1,
                  !.last = "stop",
                  !.alive = IF exits THEN ms.alive - 1 ELSE ms.alive,
                  !.socket = IF found /\ unlinked = "ok" THEN FALSE
                             ELSE ms.socket,
                  !.stopped = [held |-> held,
                               waited |-> IF held THEN waited ELSE "none",
                               found |-> found,
                               unlinked |-> IF found THEN unlinked ELSE "none",
                               raised |-> IF first # "none" THEN first
                                          ELSE second]]
    /\ UNCHANGED <<execVars, provVars, dataVars, sshVars, waitVars, runVars,
                   lintVars, checkVars, normVars, workdirVars>>

MasterNext ==
    \/ SshOperation
    \/ MasterListens
    \/ MasterExits
    \/ SshStop

\* No SSH guest is in use.
SshIdle ==
    /\ ssh = [address |-> FALSE, dry |-> FALSE, master |-> FALSE]
    /\ defaults = [push |-> DEFAULT_RSYNC_PUSH_OPTIONS,
                   pull |-> DEFAULT_RSYNC_PULL_OPTIONS]
    /\ call = NoCall
    /\ ncalls = 0
    /\ rb = NoReboot

\* A guest with or without an address, in or out of dry mode, and the module
\* as imported.
InitSsh ==
    /\ \E a \in BOOLEAN, d \in BOOLEAN :
          ssh = [address |-> a, dry |-> d, master |-> FALSE]
    /\ defaults = [push |-> DEFAULT_RSYNC_PUSH_OPTIONS,
                   pull |-> DEFAULT_RSYNC_PULL_OPTIONS]
    /\ call = NoCall
    /\ ncalls = 0
    /\ rb = NoReboot

\* ---------------------------------------------------------------------------
\* Provision._normalize_data and the mapping of Provision.save()
\* ---------------------------------------------------------------------------
\* Names of the phases of the step data, as super()._normalize_data gives them.
PhaseNames == {"default-0", "default-1", "client", "server"}

NameLists == UNION {[1..n -> PhaseNames] : n \in 1..MaxPhases}

\* collections.Counter(names)[name]
RECURSIVE NamesCount(_, _, _)
NamesCount(names, name, n) ==
    IF n = 0 THEN 0
    ELSE NamesCount(names, name, n - 1) + (IF names[n] = name THEN 1 ELSE 0)

\* names_count.most_common(1)[0][1]: the count of the most common name.
MostCommonCount(names) ==
    CHOOSE c \in 1..Len(names) :
        /\ \E k \in 1..Len(names) : NamesCount(names, names[k], Len(names)) = c
        /\ \A k \in 1..Len(names) : NamesCount(names, names[k], Len(names)) <= c

\* Faulty variant: names are not compared.
DuplicateNamesAccepted(names) == FALSE

\* 'if len(data) > 1 and names_count.most_common(1)[0][1] > 1'
DuplicateNames(names) == Len(names) > 1 /\ MostCommonCount(names) > 1

\* A guest: named after its phase, with the data of that phase.
PhaseGuest(names, k) == [name |-> names[k], phase |-> k]

\* The guests of the phases listed, in the order of the phases.
RECURSIVE ListedGuests(_, _, _)
ListedGuests(names, listed, n) ==
    IF n = 0 THEN <<>>
    ELSE IF listed[n]
    THEN Append(ListedGuests(names, listed, n - 1), PhaseGuest(names, n))
    ELSE ListedGuests(names, listed, n - 1)

\* '{guest.name: guest.save().to_serialized() for guest in self.guests()}':
\* a later guest of the same name replaces the earlier one.
RECURSIVE RawGuestData(_, _)
RawGuestData(gs, n) ==
    IF n = 0 THEN [name \in {} |-> 0]
    ELSE LET before == RawGuestData(gs, n - 1)
         IN  [name \in DOMAIN before \cup {gs[n].name} |->
                 IF name = gs[n].name THEN gs[n].phase ELSE before[name]]

NotNormalized ==
    [pc |-> "idle", names |-> <<>>, result |-> "none", guests |-> <<>>,
     raw_guest_data |-> [name \in {} |-> 0]]

\* No step data is being normalized.
NormalizeIdle == nz = NotNormalized

\* Step data with up to MaxPhases phases.
InitNormalize ==
    \E names \in NameLists :
        nz = [NotNormalized EXCEPT !.pc = "constructed", !.names = names]

\* Provision._normalize_data(raw_data, logger)
NormalizeData ==
    /\ nz.pc = "constructed"
    /\ nz' = IF DuplicateNames(nz.names)
             THEN [nz EXCEPT !.pc = "raised", !.result = "GeneralError"]
             ELSE [nz EXCEPT !.pc = "normalized", !.result = "data"]
    /\ UNCHANGED <<execVars, provVars, dataVars, sshVars, waitVars, runVars,
                   lintVars, checkVars, masterVars, workdirVars>>

\* go(): the guests of the phases that are ready are listed.
ListGuests ==
    /\ nz.pc = "normalized"
    /\ \E listed \in [1..Len(nz.names) -> BOOLEAN] :
          nz' = [nz EXCEPT !.pc = "provisioned",
                           !.guests = ListedGuests(nz.names, listed,
                                                   Len(nz.names))]
    /\ UNCHANGED <<execVars, provVars, dataVars, sshVars, waitVars, runVars,
                   lintVars, checkVars, masterVars, workdirVars>>

\* save(): the name-keyed mapping of the guests is made.
SaveGuests ==
    /\ nz.pc = "provisioned"
    /\ nz' = [nz EXCEPT !.pc = "saved",
                        !.raw_guest_data = RawGuestData(nz.guests,
                                                        Len(nz.guests))]
    /\ UNCHANGED <<execVars, provVars, dataVars, sshVars, waitVars, runVars,
                   lintVars, checkVars, masterVars, workdirVars>>

NormalizeNext ==
    \/ NormalizeData
    \/ ListGuests
    \/ SaveGuests

\* ---------------------------------------------------------------------------
\* Common._workdir_init for runs started without an id
\* ---------------------------------------------------------------------------
\* WORKDIR_MAX
WORKDIR_MAX == 1000

\* str(id_bit): the decimal digits of a positive number.
RECURSIVE Str(_)
Str(n) == IF n < 10 THEN <<n>> ELSE Append(Str(n \div 10), n % 10)

\* s.rjust(width, fill)
RECURSIVE Rjust(_, _, _)
Rjust(s, width, fill) ==
    IF Len(s) >= width THEN s ELSE Rjust(<<fill>> \o s, width, fill)

\* 'run-{}'.format(str(id_bit).rjust(3, '0'))
Directory(id_bit) == <<"run-">> \o Rjust(Str(id_bit), 3, 0)

\* Runs started at the same time
MaxRuns == 2

\* Numbers free at either end of the range when the runs start
MaxFree == 2

Runs == 1..MaxRuns

\* Numbers whose directory may be missing when the runs start: the lowest
\* and the highest MaxFree numbers.
FreeNumbers == (1..MaxFree) \cup ((WORKDIR_MAX - MaxFree + 1)..WORKDIR_MAX)

\* Faulty variant: mkdir(parents=True, exist_ok=True).
MkdirExistOk(dirs, directory) == FALSE

\* workdir.mkdir(parents=True) raises FileExistsError
MkdirFails(dirs, directory) == directory \in dirs

\* The next number from id_bit on whose directory did not exist at the start.
NextNotOld(old, id_bit) ==
    LET rest == {n \in id_bit..WORKDIR_MAX : Directory(n) \notin old}
    IN  IF rest = {} THEN WORKDIR_MAX + 1
        ELSE CHOOSE n \in rest : \A m \in rest : n <= m

NoWorkdir == <<>>

NewRun == [pc |-> "new", id_bit |-> 0, workdir |-> NoWorkdir,
           result |-> "none"]

NoWorkdirs == [old |-> {}, dirs |-> {}, runs |-> <<>>]

\* No run is creating a workdir.
WorkdirIdle == wd = NoWorkdirs

\* Some directories exist under the workdir root; no run has started.
InitWorkdir ==
    \E free \in SUBSET FreeNumbers :
        LET old == {Directory(n) : n \in (1..WORKDIR_MAX) \ free}
        IN  wd = [old |-> old, dirs |-> old, runs |-> [r \in Runs |-> NewRun]]

\* _workdir_init(id_=None): the workdir root is there, the scan begins
\* ('for id_bit in range(1, WORKDIR_MAX + 1)').
WorkdirInit(r) ==
    /\ wd.runs[r].pc = "new"
    /\ wd' = [wd EXCEPT !.runs[r].pc = "scanning", !.runs[r].id_bit = 1]
    /\ UNCHANGED <<execVars, provVars, dataVars, sshVars, waitVars, runVars,
                   lintVars, checkVars, masterVars, normVars>>

\* The mkdir attempts on directories that existed before any run started:
\* each raises FileExistsError and the scan moves on.
SkipExisting(r) ==
    /\ wd.runs[r].pc = "scanning"
    /\ wd.runs[r].id_bit <= WORKDIR_MAX
    /\ Directory(wd.runs[r].id_bit) \in wd.old
    /\ wd' = [wd EXCEPT !.runs[r].id_bit = NextNotOld(wd.old, @)]
    /\ UNCHANGED <<execVars, provVars, dataVars, sshVars, waitVars, runVars,
                   lintVars, checkVars, masterVars, normVars>>

\* One mkdir attempt on a directory that did not exist when the runs started:
\* 'try: workdir.mkdir(parents=True); break; except FileExistsError: pass'
Mkdir(r) ==
    /\ wd.runs[r].pc = "scanning"
    /\ wd.runs[r].id_bit <= WORKDIR_MAX
    /\ Directory(wd.runs[r].id_bit) \notin wd.old
    /\ LET directory == Directory(wd.runs[r].id_bit)
       IN  wd' = IF MkdirFails(wd.dirs, directory)
                 THEN [wd EXCEPT !.runs[r].id_bit = @ + 1]
                 ELSE [wd EXCEPT !.dirs = @ \cup {directory},
                                 !.runs[r].workdir = directory,
                                 !.runs[r].pc = "created",
                                 !.runs[r].result = "workdir"]
    /\ UNCHANGED <<execVars, provVars, dataVars, sshVars, waitVars, runVars,
                   lintVars, checkVars, masterVars, normVars>>

\* The else branch of the for loop:
\* 'raise GeneralError("Workdir full. Cleanup the ... directory.")'
WorkdirFull(r) ==
    /\ wd.runs[r].pc = "scanning"
    /\ wd.runs[r].id_bit > WORKDIR_MAX
    /\ wd' = [wd EXCEPT !.runs[r].pc = "raised",
                        !.runs[r].result = "Workdir full"]
    /\ UNCHANGED <<execVars, provVars, dataVars, sshVars, waitVars, runVars,
                   lintVars, checkVars, masterVars, normVars>>

WorkdirNext ==
    \E r \in Runs :
        \/ WorkdirInit(r)
        \/ SkipExisting(r)
        \/ Mkdir(r)
        \/ WorkdirFull(r)

\* ---------------------------------------------------------------------------
\* Specifications
\* ---------------------------------------------------------------------------
vars ==
    <<execVars, provVars, dataVars, sshVars, waitVars, runVars, lintVars,
      checkVars, masterVars, normVars, workdirVars>>

\* The test loop of the execute step.
Init ==
    InitExecute /\ ProvisionIdle /\ DataIdle /\ SshIdle /\ WaitIdle /\ RunIdle
    /\ LintIdle /\ CheckIdle /\ MasterIdle
    /\ NormalizeIdle /\ WorkdirIdle

Next == ExecuteNext

Spec == Init /\ [][Next]_vars

\* _run_tests runs in one thread, and no guest operation blocks forever: its
\* next statement is executed eventually. A test leaves a reboot marker at
\* most MaxReboots times.
SpecFair == Spec /\ WF_vars(Next)

\* The provision step.
InitProv ==
    ExecuteIdle /\ InitProvision /\ DataIdle /\ SshIdle /\ WaitIdle /\ RunIdle
    /\ LintIdle /\ CheckIdle /\ MasterIdle
    /\ NormalizeIdle /\ WorkdirIdle

SpecProvision == InitProv /\ [][ProvisionNext]_vars

\* The round trip of guest data.
InitGuestData ==
    ExecuteIdle /\ ProvisionIdle /\ InitData /\ SshIdle /\ WaitIdle /\ RunIdle
    /\ LintIdle /\ CheckIdle /\ MasterIdle
    /\ NormalizeIdle /\ WorkdirIdle

SpecGuestData == InitGuestData /\ [][DataNext]_vars

\* The calls made on an SSH guest.
InitGuestSsh ==
    ExecuteIdle /\ ProvisionIdle /\ DataIdle /\ InitSsh /\ WaitIdle /\ RunIdle
    /\ LintIdle /\ CheckIdle /\ MasterIdle
    /\ NormalizeIdle /\ WorkdirIdle

SpecGuestSsh == InitGuestSsh /\ [][SshNext]_vars

\* Reboots of an SSH guest.
SpecReboot == InitGuestSsh /\ [][RebootNext]_vars

\* A call of wait().
InitWaiting ==
    ExecuteIdle /\ ProvisionIdle /\ DataIdle /\ SshIdle /\ InitWait /\ RunIdle
    /\ LintIdle /\ CheckIdle /\ MasterIdle
    /\ NormalizeIdle /\ WorkdirIdle

SpecWait == InitWaiting /\ [][WaitNext]_vars

\* wait() runs in one thread that is not stopped: its next statement is
\* executed eventually.
SpecWaitFair == SpecWait /\ WF_vars(WaitNext)

\* A call of run().
InitRunning ==
    ExecuteIdle /\ ProvisionIdle /\ DataIdle /\ SshIdle /\ WaitIdle /\ InitRun
    /\ LintIdle /\ CheckIdle /\ MasterIdle
    /\ NormalizeIdle /\ WorkdirIdle

SpecRun == InitRunning /\ [][RunNext]_vars

\* run() and the readers execute in threads that are not stopped: their next
\* statement is executed eventually, unless it blocks. Nothing is assumed
\* about the processes.
SpecRunFair == SpecRun /\ WF_vars(RunSteps) /\ WF_vars(ReaderSteps)

\* A lint command.
InitLinting ==
    ExecuteIdle /\ ProvisionIdle /\ DataIdle /\ SshIdle /\ WaitIdle /\ RunIdle
    /\ InitLint /\ CheckIdle /\ MasterIdle
    /\ NormalizeIdle /\ WorkdirIdle

SpecLint == InitLinting /\ [][LintNext]_vars

\* A call of check().
InitChecking ==
    ExecuteIdle /\ ProvisionIdle /\ DataIdle /\ SshIdle /\ WaitIdle /\ RunIdle
    /\ LintIdle /\ InitCheck /\ MasterIdle
    /\ NormalizeIdle /\ WorkdirIdle

SpecCheck == InitChecking /\ [][CheckNext]_vars

\* The master connection of one guest.
InitMasterConnection ==
    ExecuteIdle /\ ProvisionIdle /\ DataIdle /\ SshIdle /\ WaitIdle /\ RunIdle
    /\ LintIdle /\ CheckIdle /\ InitMaster
    /\ NormalizeIdle /\ WorkdirIdle

SpecMaster == InitMasterConnection /\ [][MasterNext]_vars

\* The normalization of provision step data.
InitNormalizing ==
    ExecuteIdle /\ ProvisionIdle /\ DataIdle /\ SshIdle /\ WaitIdle /\ RunIdle
    /\ LintIdle /\ CheckIdle /\ MasterIdle
    /\ InitNormalize /\ WorkdirIdle

SpecNormalize == InitNormalizing /\ [][NormalizeNext]_vars

\* Runs creating their workdirs at the same time.
InitWorkdirs ==
    ExecuteIdle /\ ProvisionIdle /\ DataIdle /\ SshIdle /\ WaitIdle /\ RunIdle
    /\ LintIdle /\ CheckIdle /\ MasterIdle
    /\ NormalizeIdle /\ InitWorkdir

SpecWorkdir == InitWorkdirs /\ [][WorkdirNext]_vars

\* ---------------------------------------------------------------------------
\* Properties of the test loop
\* ---------------------------------------------------------------------------
LastOf(seq) == seq[Len(seq)]

IsSuffix(rs, rec) ==
    /\ Len(rs) <= Len(rec)
    /\ \A k \in 1..Len(rs) : rec[Len(rec) - Len(rs) + k] = rs[k]

AllNoted(rs, note) == \A k \in 1..Len(rs) : rs[k].note = note

AllError(rs, note) ==
    \A k \in 1..Len(rs) : rs[k].result = "error" /\ rs[k].note = note

Failing(r) == r.result \notin PassingOutcomes

\* The latest execution follows the one before: the first runs test 0, the same
\* test runs again exactly after its successful reboot, otherwise the next one.
ExecutionOrder ==
    /\ curExec.index = -1 => index = 0 /\ recorded = <<>>
    /\ curExec.index >= 0 =>
          /\ curExec.index = index \/ (curExec.index = index - 1 /\ ~curExec.rebooted)
          /\ IF prevExec.index = -1
             THEN curExec.index = 0
             ELSE \/ curExec.index = prevExec.index /\ prevExec.rebooted
                  \/ curExec.index = prevExec.index + 1 /\ ~prevExec.rebooted

\* Results are recorded test by test, in list order, each test at most once.
RecordedInOrder ==
    /\ \A k \in 1..Len(recordedFor) : recordedFor[k] = k - 1
    /\ \A j, k \in 1..Len(recorded) : j < k => recorded[j].test <= recorded[k].test

\* While no marker was seen, what is recorded for a test is what check()
\* returned for it, unannotated.
RecordedAsChecked ==
    (pc = "stop_check" /\ ~markerSeen) =>
        /\ results = MakeResults(index, checked)
        /\ IsSuffix(results, recorded)
        /\ \A k \in 1..Len(recorded) :
              recorded[k].note = NoNote /\ recorded[k].result \in Outcomes

C2_Original ==
    abortFile =>
        /\ pc \notin {"loop", "execute", "pull"}
        /\ pc \in {"stop_check", "final_pull", "done"} =>
              /\ AllNoted(results, "aborted")
              /\ IsSuffix(results, recorded)

\* C2 (amended): when the abort check is reached with the abort marker present
\* (no reboot request, or the reboot timed out), every result of the test is
\* annotated 'aborted' and recorded, and the loop stops: no later test runs.
C2_AbortStops ==
    /\ pc \in {"record", "stop_check"} => abort = abortFile
    /\ abort =>
          /\ pc \in {"record", "stop_check", "final_pull", "done"}
          /\ AllNoted(results, "aborted")
          /\ curExec.index = index
          /\ pc # "record" =>
                /\ IsSuffix(results, recorded)
                /\ LastOf(recordedFor) = index

C2_Witness ==
    /\ pc = "done"
    /\ abort
    /\ index + 1 < ntests
    /\ Len(results) > 0
    /\ LastOf(recorded).note = "aborted"

\* The results of the latest execution exist and the last one is not pass/info.
JustRunFailing ==
    /\ results # <<>>
    /\ LastOf(results).test = curExec.index
    /\ Failing(LastOf(results))

\* C3 as stated: with exit-first, once the most recent result of the test just
\* run is neither pass nor info, the loop does not go on to another execution;
\* without exit-first and abort the loop is never left before the list ends.
C3_Original ==
    /\ (exit_first /\ JustRunFailing) => pc \notin {"loop", "execute", "pull"}
    /\ (pc \in {"final_pull", "done"} /\ index < ntests) => (abort \/ exit_first)

StopCheckStep ==
    pc = "stop_check" =>
        /\ (exit_first /\ JustRunFailing) =>
              /\ pc' = "final_pull"
              /\ index' = index
              /\ IsSuffix(results, recorded)
              /\ recorded' = recorded
        /\ (~exit_first /\ ~abort) =>
              /\ pc' = "loop"
              /\ index' = index + 1

NothingRunsAfterStop ==
    pc \in {"final_pull", "done", "raised"} =>
        /\ pc' \in {"done", "raised"}
        /\ curExec' = curExec
        /\ recorded' = recorded

\* C3 (amended): with exit-first, when the stop check is reached (no reboot
\* request, or the reboot timed out) and the most recent result of the test just
\* run is neither pass nor info, the loop stops right after the results were
\* recorded and no later test runs; without exit-first and without an abort
\* marker the stop check always goes on to the next test.
C3_ExitFirstStops == [][StopCheckStep /\ NothingRunsAfterStop]_vars

C3_Witness ==
    /\ pc = "done"
    /\ exit_first
    /\ ~abort
    /\ index + 1 < ntests
    /\ JustRunFailing
    /\ IsSuffix(results, recorded)

\* The reboot request {} : a JSON object with neither command nor timeout.
EmptyRequest == [kind |-> "object", command |-> "absent", timeout |-> NoTimeoutField]

\* C4: a reboot request with neither command nor timeout key makes one
\* guest.reboot() call with no custom command and no custom timeout, and the
\* reboot counter ends exactly 1 higher.
C4_DefaultReboot ==
    (handled.done /\ handled.content = EmptyRequest /\ handled.pushed # "RunError") =>
        /\ Len(handled.calls) >= 1
        /\ handled.calls[1].hard = FALSE
        /\ handled.calls[1].command = "None"
        /\ handled.calls[1].timeout = NoValue
        /\ reboot_count = handled.countBefore + 1

\* C5: whatever the reboot request file contains, a reboot is attempted;
\* a malformed command or timeout falls back to the default instead of
\* failing the run.
C5_MalformedFallsBack ==
    (handled.done /\ handled.pushed # "RunError") =>
        /\ Len(handled.calls) >= 1
        /\ handled.content.command # "string" => handled.calls[1].command = "None"
        /\ handled.content.timeout.t # "numeric" => handled.calls[1].timeout = NoValue

\* C6: a reboot that times out is caught in the loop: all results of the test
\* become error with note 'reboot timeout', are recorded, and (no exit-first,
\* no abort marker) the loop advances to the next index.
C6_RebootTimeout ==
    /\ (handled.done /\ handled.outcome = "RebootTimeoutError") =>
          pc = "abort_check" /\ err = "none" /\ rebootTimeout
    /\ rebootTimeout =>
          /\ pc \in {"abort_check", "record", "stop_check", "loop", "execute",
                     "final_pull", "done", "raised"}
          /\ pc = "abort_check" => AllError(results, "reboot timeout")
          /\ (pc \in {"record", "stop_check"} /\ ~abortFile) =>
                AllError(results, "reboot timeout")
          /\ (pc = "stop_check" /\ ~abortFile) =>
                IsSuffix(results, recorded) /\ LastOf(recordedFor) = index
          /\ (pc \in {"loop", "execute", "final_pull", "done"} /\ ~exit_first /\ ~abort) =>
                /\ index = curExec.index + 1
                /\ LastOf(recordedFor) = curExec.index
                /\ ~curExec.rebooted
                /\ AllError(results, "reboot timeout")
                /\ IsSuffix(results, recorded)
          /\ (pc = "raised" /\ ~exit_first) => err = "RunError"

C6_Witness ==
    /\ rebootTimeout
    /\ pc = "execute"
    /\ ~exit_first
    /\ index = 1
    /\ Len(recorded) > 0
    /\ LastOf(recorded) = [test |-> 0, result |-> "error", note |-> "reboot timeout"]

\* C7: a RunError of guest.reboot leaves the loop; a ProvisionError of the soft
\* reboot is followed by exactly one more call, hard=True with the same timeout,
\* whose answer decides how the reboot handling ends.
C7_RebootErrors ==
    (handled.done /\ Len(handled.calls) >= 1) =>
        LET calls == handled.calls
        IN  /\ Len(calls) <= 2
            /\ calls[1].hard = FALSE
            /\ calls[1].outcome = "RunError" =>
                  Len(calls) = 1 /\ pc = "raised" /\ err = "RunError"
            /\ calls[1].outcome \in {"True", "False"} => Len(calls) = 1
            /\ calls[1].outcome = "ProvisionError" =>
                  /\ Len(calls) = 2
                  /\ calls[2].hard = TRUE
                  /\ calls[2].command = "None"
                  /\ calls[2].timeout = calls[1].timeout
            /\ LastOf(calls).outcome = "True" =>
                  pc = "loop" /\ err = "none" /\ curExec.rebooted /\ curExec.index = index
            /\ LastOf(calls).outcome = "False" =>
                  pc = "abort_check" /\ err = "none" /\ rebootTimeout
            /\ LastOf(calls).outcome \in {"RunError", "ProvisionError"} =>
                  pc = "raised" /\ err = LastOf(calls).outcome

C7_Witness ==
    /\ handled.done
    /\ Len(handled.calls) = 2
    /\ handled.calls[1].command = "custom"
    /\ handled.calls[1].timeout # NoValue
    /\ handled.calls[2].outcome = "True"
    /\ pc = "loop"

\* C8: a test command that exceeds its duration does not make execute() raise:
\* the return code is the timeout sentinel, the output captured so far is
\* appended to the output file, and the loop goes on with the pull.
C8_TimeoutNotFatal ==
    lastExec.kind = "timeout" =>
        /\ pc = "pull"
        /\ err = "none"
        /\ returncode = Some(PROCESS_TIMEOUT)
        /\ written = (IF lastExec.stdout = "None" THEN "" ELSE lastExec.stdout)

C8_Witness ==
    /\ lastExec.kind = "timeout"
    /\ lastExec.stdout = "output"
    /\ written = "output"
    /\ pc = "pull"
    /\ returncode = Some(124)

\* ---------------------------------------------------------------------------
\* Properties of Provision.go()
\* ---------------------------------------------------------------------------
\* C9: a go() entered with status 'done' runs no phase: no plugin go() and no
\* details() call, and it returns with the status and the guest list it was
\* entered with.
C9_DoneRunsNothing ==
    (goCalls > 0 /\ entered.status = "done") =>
        /\ ppc = "returned"
        /\ perr = "none"
        /\ phaseRuns = <<>>
        /\ status = "done"
        /\ guests = entered.guests

C9_Witness ==
    /\ goCalls = 1
    /\ entered.status = "done"
    /\ ppc = "returned"
    /\ \E k \in 1..Len(guests) : guest[guests[k]] = "notready"

RunRaised(run) == run.go # "ok" \/ run.details \notin {"ok", "notcalled"}

\* C10: in a go() entered with a status other than 'done', the status is 'done'
\* only when every phase's go(), and every details() called, returned; once a
\* phase has raised the status stays what it was and go() raises.
C10_DoneOnlyAfterAllPhases ==
    (goCalls > 0 /\ entered.status # "done") =>
        /\ status = "done" =>
              /\ ppc = "returned"
              /\ perr = "none"
              /\ Len(phaseRuns) = Len(phases)
              /\ \A k \in 1..Len(phaseRuns) : ~RunRaised(phaseRuns[k])
        /\ (\E k \in 1..Len(phaseRuns) : RunRaised(phaseRuns[k])) =>
              /\ status = entered.status
              /\ ppc = "raised"
              /\ perr # "none"
              /\ RunRaised(LastOf(phaseRuns))

C10_Witness ==
    /\ status = "done"
    /\ entered.status = "todo"
    /\ ppc = "returned"
    /\ Len(phaseRuns) = 2
    /\ phaseRuns[1].details = "ok"
    /\ phaseRuns[2].go = "ok"

\* The guests go() has to list after the first n phases: of each provision
\* phase the guest that is ready, in dry mode the guest whatever its state.
RECURSIVE ExpectedGuests(_)
ExpectedGuests(n) ==
    IF n = 0 THEN <<>>
    ELSE IF /\ phases[n] = "ProvisionPlugin"
            /\ guest[n] # "None"
            /\ (guest[n] = "ready" \/ dry)
         THEN Append(ExpectedGuests(n - 1), n)
         ELSE ExpectedGuests(n - 1)

RaisedBy(run) == IF run.go # "ok" THEN run.go ELSE run.details

\* C11: when a phase raises a run error or a provision error, go() raises that
\* error, no later phase is run, and the guest list holds, in order, the guest
\* of every phase run so far, the failing one included, that is ready (in dry
\* mode: that exists).
C11_ErrorKeepsReadyGuests ==
    (ppc = "raised" /\ perr \in {"RunError", "ProvisionError"}) =>
        /\ pos <= Len(phases)
        /\ Len(phaseRuns) = pos
        /\ \A k \in 1..(pos - 1) : ~RunRaised(phaseRuns[k])
        /\ RunRaised(phaseRuns[pos])
        /\ perr = RaisedBy(phaseRuns[pos])
        /\ guests = ExpectedGuests(pos)

C11_Witness ==
    /\ ppc = "raised"
    /\ perr = "ProvisionError"
    /\ Len(phases) = 2
    /\ pos = 1
    /\ ~dry
    /\ guest[1] = "ready"
    /\ guests = <<1>>

\* C12: when a phase raises SystemExit, go() makes no save() call, leaves the
\* status as it was (not 'done'), and the SystemExit reaches the caller.
C12_SystemExitSkipsSave ==
    (goCalls > 0 /\ entered.status # "done" /\ LET n == Len(phaseRuns)
         IN n > 0 /\ phaseRuns[n].go = "SystemExit") =>
        /\ ppc = "raised"
        /\ perr = "SystemExit"
        /\ ~save
        /\ saved.calls = entered.saves
        /\ status = entered.status
        /\ status # "done"

C12_Witness ==
    /\ ppc = "raised"
    /\ perr = "SystemExit"
    /\ ~dry
    /\ Len(guests) > 0
    /\ saved.last = "ok"
    /\ saved.content # Some(GuestMapping(guests))

\* A go() that ran the phases has returned.
WentThrough == goCalls > 0 /\ entered.status # "done" /\ ppc = "returned"

Ascending(seq) == \A j, k \in 1..Len(seq) : j < k => seq[j] < seq[k]

\* C13 as stated: after go() completed normally the status is 'done', the ready
\* guest of each provision phase is listed exactly once, in phase order, and
\* save() has written guests.yaml with exactly one entry per listed guest.
C13_Original ==
    WentThrough =>
        /\ status = "done"
        /\ Ascending(guests)
        /\ \A n \in 1..Len(phases) :
              (phases[n] = "ProvisionPlugin" /\ guest[n] = "ready") =>
                  \E k \in 1..Len(guests) : guests[k] = n
        /\ saved.calls = entered.saves + 1
        /\ saved.content = Some(GuestMapping(guests))
        /\ Cardinality(GuestMapping(guests)) = Len(guests)

\* C13 (amended): after a go() that ran the phases completed normally the
\* status is 'done', the list holds exactly once and in phase order the guest
\* of each provision phase that is ready (in dry mode: every guest), and save()
\* was called once: when its write succeeded guests.yaml has exactly one entry
\* per listed guest; in dry mode, or when the write failed with a file error,
\* guests.yaml is as it was.
C13_DoneListsAndSaves ==
    WentThrough =>
        /\ status = "done"
        /\ guests = ExpectedGuests(Len(phases))
        /\ Ascending(guests)
        /\ saved.calls = entered.saves + 1
        /\ saved.last = "dry" <=> dry
        /\ saved.last = "ok" =>
              /\ saved.content = Some(GuestMapping(guests))
              /\ Cardinality(GuestMapping(guests)) = Len(guests)
        /\ dry => saved.content = NoValue

C13_Witness ==
    /\ WentThrough
    /\ ~dry
    /\ entered.guests = <<1, 2>>
    /\ guests = <<1, 2>>
    /\ saved.last = "ok"
    /\ saved.content = Some({1, 2})

\* ---------------------------------------------------------------------------
\* Properties of guest data
\* ---------------------------------------------------------------------------
\* The guest that was saved and the guest that was loaded agree on key.
SameField(key) ==
    /\ key \in DOMAIN trip.loaded.attrs
    /\ trip.loaded.attrs[key] = trip.guest.attrs[key]

\* C14: for every guest, save() then to_serialized() then unserialize() then
\* load() into a new guest yields a guest of the same data class whose fields
\* role and guest (and port, user, key, password, ssh_option for SSH guests)
\* equal the originals.
C14_RoundTrip ==
    trip.stage = "loaded" =>
        /\ trip.loaded.data_class = trip.guest.data_class
        /\ trip.restored.class = trip.guest.data_class
        /\ SameField("role")
        /\ SameField("guest")
        /\ trip.guest.data_class = "GuestSshData" =>
              /\ SameField("port")
              /\ SameField("user")
              /\ SameField("key")
              /\ SameField("password")
              /\ SameField("ssh_option")

C14_Witness ==
    /\ trip.stage = "loaded"
    /\ trip.guest.data_class = "GuestSshData"
    /\ trip.guest.attrs["role"] = NoValue
    /\ trip.guest.attrs["guest"] = Some("guest")
    /\ trip.guest.attrs["port"] = Some("port")
    /\ trip.guest.attrs["key"] = ListOf(<<"key">>)
    /\ trip.guest.attrs["ssh_option"] = ListOf(<<>>)
    /\ trip.loaded.attrs["key"] = ListOf(<<"key">>)
    /\ trip.loaded.attrs["role"] = NoValue

\* ---------------------------------------------------------------------------
\* Properties of GuestSsh
\* ---------------------------------------------------------------------------
IsMaster(c) == c = MasterCommand

NotMaster(c) == ~IsMaster(c)

IsRsync(c) == c.cmd = "rsync"

\* The subprocesses of the latest call other than the master connection, and
\* the rsync attempts among them.
Commands == SelectSeq(call.cmds, NotMaster)

Attempts == SelectSeq(call.cmds, IsRsync)

\* The latest call is a push() or pull() whose first rsync attempt failed (in
\* the given operations) and whose probe did not find rsync on the guest.
RsyncAbsent(ops) ==
    /\ call.op \in ops
    /\ call.result # "GeneralError"
    /\ call.outcomes.first = "RunError"
    /\ call.outcomes.probe = "RunError"

\* The package manager _check_rsync detected in the latest call.
Detected == IF call.outcomes.dnf = "ok" THEN "dnf" ELSE "yum"

\* Probe, detection and install, in this order after the first attempt.
ProbeDetectInstall ==
    /\ Len(Commands) >= 5
    /\ IsRsync(Commands[1])
    /\ Commands[2] = Remote("rsync --version")
    /\ Commands[3] = Remote("dnf --version")
    /\ Commands[4] = Remote("rpm-ostree --version")
    /\ Commands[5] \in {InstallCommand(Detected, TRUE),
                        InstallCommand(Detected, FALSE)}

\* Exactly one more rsync attempt, after the install and with the options of
\* the first one.
OneRetry ==
    /\ Len(Commands) = 6
    /\ Len(Attempts) = 2
    /\ Commands[6] = Commands[1]

\* C15 (as stated): a push() whose first rsync attempt fails while rsync is
\* absent on the guest runs the probe, the detection, the install command and
\* then exactly one more rsync attempt, and returns normally when that attempt
\* succeeds.
C15_Original ==
    RsyncAbsent({"push"}) =>
        /\ ProbeDetectInstall
        /\ OneRetry
        /\ call.outcomes.second = "ok" => call.result = "returned"

\* C15 (amended): such a push() runs, in this order, the probe, the detection
\* of the package manager (dnf if 'dnf --version' succeeds, otherwise yum), the
\* probe for a read-only distribution and the install command of the detected
\* manager; when the install command succeeds exactly one more rsync attempt
\* follows and push() returns normally if that attempt succeeds; when the
\* install command fails push() raises the run error with no second attempt.
C15_InstallThenRetry ==
    RsyncAbsent({"push"}) =>
        /\ ProbeDetectInstall
        /\ call.outcomes.install = "ok" =>
              /\ OneRetry
              /\ call.result = "returned" <=> call.outcomes.second = "ok"
        /\ call.outcomes.install = "RunError" =>
              /\ Len(Commands) = 5
              /\ Len(Attempts) = 1
              /\ call.result = "RunError"

C15_Witness ==
    /\ RsyncAbsent({"push"})
    /\ call.outcomes.dnf = "RunError"
    /\ call.outcomes.install = "ok"
    /\ call.outcomes.second = "ok"
    /\ Commands[5] = InstallCommand("yum", FALSE)
    /\ Len(Attempts) = 2
    /\ call.result = "returned"

\* C16 (as stated): in push() and pull(), when the first attempt fails and the
\* probe finds rsync installed the run error is re-raised without a second
\* attempt; otherwise rsync is retried exactly once after the install; rsync
\* is attempted at most twice per call.
C16_Original ==
    /\ Len(Attempts) <= 2
    /\ (/\ call.op \in {"push", "pull"}
        /\ call.outcomes.first = "RunError") =>
          IF call.outcomes.probe = "ok"
          THEN Len(Attempts) = 1 /\ call.result = "RunError"
          ELSE OneRetry

\* C16 (amended): in push() and pull(), when the first attempt fails and the
\* probe finds rsync installed, or the install command fails, the run error is
\* raised to the caller without a second rsync attempt; otherwise (the install
\* succeeded) rsync is retried exactly once after the install; rsync is
\* attempted at most twice per call in every outcome.
C16_RetryOnlyAfterInstall ==
    /\ Len(Attempts) <= 2
    /\ (/\ call.op \in {"push", "pull"}
        /\ call.outcomes.first = "RunError") =>
          IF call.outcomes.probe = "ok"
          THEN /\ Len(Attempts) = 1
               /\ Len(Commands) = 2
               /\ call.result = "RunError"
          ELSE IF call.outcomes.install = "RunError"
          THEN /\ Len(Attempts) = 1
               /\ call.result = "RunError"
          ELSE OneRetry

C16_Witness ==
    /\ call.op = "pull"
    /\ call.outcomes.first = "RunError"
    /\ call.outcomes.probe = "ok"
    /\ Commands = <<Rsync(DEFAULT_RSYNC_PULL_OPTIONS),
                    Remote("rsync --version")>>
    /\ call.result = "RunError"

\* The latest call is a push() or pull() that was given no options of its own
\* and nothing to extend them with.
DefaultOptionsCall(op) ==
    /\ call.op = op
    /\ call.result # "GeneralError"
    /\ UsesDefault(call.options)
    /\ call.extend = NoValue

\* Every rsync attempt of the latest call was given these options.
AttemptsUse(options) ==
    \A k \in 1..Len(Attempts) : Attempts[k].options = options

\* C17: the rsync options push() and pull() use when the caller passes none are
\* fixed: the same on every call, whatever pull() calls with extend_options
\* were made before.
C17_FixedDefaults ==
    /\ DefaultOptionsCall("push") => AttemptsUse(DEFAULT_RSYNC_PUSH_OPTIONS)
    /\ DefaultOptionsCall("pull") => AttemptsUse(DEFAULT_RSYNC_PULL_OPTIONS)

\* C20: when the guest has no address, execute(), push() and pull() start no
\* subprocess at all (no ssh, no rsync, no master connection): outside dry
\* mode they fail with the guest-unavailable error, in dry mode they return
\* empty output.
C20_NoAddressStartsNothing ==
    (call.op \in {"execute", "push", "pull"} /\ ~ssh.address) =>
        /\ call.cmds = <<>>
        /\ ~ssh.dry => call.result = "GeneralError"
        /\ ssh.dry => call.result = "returned" /\ call.output = NoValue

\* ---------------------------------------------------------------------------
\* Properties of GuestSsh.reboot()
\* ---------------------------------------------------------------------------
\* The reboot command of the latest reboot() was issued: it was the last
\* command run, and it ended with exit code 0 or 255.
Issued ==
    /\ call.op = "reboot"
    /\ rb.pc \in {"waiting", "ended"}
    /\ call.cmds # <<>>
    /\ LastOf(call.cmds) = RebootCommand(rb.command)
    /\ CommandIssued(rb.exit)

\* The latest boot time read differs from the one read before the command,
\* and was made while the deadline had not passed.
ChangedInTime ==
    /\ rb.last.read.kind = "btime"
    /\ rb.last.read.btime # rb.current_boot_time
    /\ rb.last.at <= rb.deadline

\* The latest boot time read gave the boot time read before the command, or
\* did not reach the guest.
Unchanged ==
    \/ rb.last.read = BootRead(rb.current_boot_time)
    \/ rb.last.read.kind = "RunError"

\* A step of reboot() after the command was issued: a boot time read, or the
\* end of the wait without one.
Polled == rb.pc = "waiting" /\ rb'.last # rb.last

GaveUp == rb.pc = "waiting" /\ rb'.last = rb.last /\ rb'.pc = "ended"

\* C18: once the reboot command was issued (exit 0 or 255), reboot() returns
\* true if and only if a boot time read after the command differs from the
\* boot time read before it while the deadline has not passed; as long as the
\* boot time read is the same, or the guest cannot be reached, reboot() keeps
\* waiting, and when the deadline has passed it returns false: no exception
\* reaches the caller.
C18_RebootWaits ==
    [][(Issued /\ (Polled \/ GaveUp)) =>
          /\ call'.result = "True" <=> (Polled /\ ChangedInTime')
          /\ (Polled /\ Unchanged') =>
                (rb'.pc = "waiting" /\ call'.result = "waiting")
          /\ GaveUp => (rb.now > rb.deadline /\ call'.result = "False")
          /\ (Polled /\ rb'.last.read.kind = "btime" /\ ~Unchanged'
                /\ ~ChangedInTime') => call'.result = "False"
          /\ (rb'.last.read.kind \in {"btime", "RunError"}) =>
                call'.result \in {"True", "False", "waiting"}]_vars

C18_Witness ==
    /\ Issued
    /\ rb.pc = "ended"
    /\ rb.exit = 255
    /\ rb.timeout = NoValue
    /\ call.result = "True"
    /\ rb.last.at > 0
    /\ ChangedInTime

\* C19: reboot(hard=True) fails immediately with a provision error: no command
\* is executed on the guest and no boot time is read before the error is
\* raised.
C19_HardRebootFails ==
    (call.op = "reboot" /\ rb.pc = "ended" /\ rb.hard) =>
        /\ call.result = "ProvisionError"
        /\ call.cmds = <<>>
        /\ rb.last = NoRead
        /\ rb.current_boot_time = NoReboot.current_boot_time

C19_Witness ==
    /\ call.op = "reboot"
    /\ rb.pc = "ended"
    /\ rb.hard
    /\ ssh.address
    /\ ~ssh.dry
    /\ call.result = "ProvisionError"
    /\ call.cmds = <<>>

\* ---------------------------------------------------------------------------
\* Properties of wait()
\* ---------------------------------------------------------------------------
RECURSIVE Power(_, _)
Power(base, exponent) ==
    IF exponent = 0 THEN 1 ELSE base * Power(base, exponent - 1)

\* wait() went past its tick test: it is in its loop, or has left it.
Waited == wt.pc \in {"looping", "ended"} /\ wt.tick > 0

\* No call of check() has done anything but raise WaitingIncomplete.
OnlyIncomplete == wt.last.check.kind \in {"none", "WaitingIncomplete"}

\* The latest call of check() returned a value.
CheckReturned == wt.last.check.kind = "returned"

\* C21: wait() (called with a positive tick) with a check that always raises
\* WaitingIncomplete ends with WaitingTimedOutError, and never before the
\* deadline (start time + timeout) has passed: at every moment up to the
\* deadline it is still polling or sleeping.
C21_TimesOutAfterDeadline ==
    /\ [](  (Waited /\ OnlyIncomplete) =>
              /\ wt.deadline = wt.timeout
              /\ wt.now <= wt.deadline => wt.pc = "looping"
              /\ wt.pc = "ended" =>
                    /\ wt.result = "WaitingTimedOutError"
                    /\ wt.now > wt.deadline)
    /\ ([]OnlyIncomplete) => <>(wt.pc = "ended")

C21_Witness ==
    /\ Waited
    /\ OnlyIncomplete
    /\ wt.pc = "ended"
    /\ wt.result = "WaitingTimedOutError"
    /\ wt.timeout = MaxWait
    /\ wt.checks >= 2
    /\ wt.now > wt.deadline

\* C22: wait() with a check that raises WaitingIncomplete on its first N-1
\* calls and returns a value on the Nth call, before the deadline, returns
\* exactly that value, having called check exactly N times and slept exactly
\* N-1 times, the k-th sleep lasting tick * tick_increase^(k-1).
C22_ReturnsNthValue ==
    (Waited /\ wt.pc = "ended" /\ CheckReturned
       /\ wt.last.at <= wt.deadline) =>
        /\ wt.result = "returned"
        /\ wt.ret = wt.last.check.value
        /\ Len(wt.sleeps) = wt.checks - 1
        /\ \A k \in 1..Len(wt.sleeps) :
              wt.sleeps[k] = wt.tick * Power(wt.tick_increase, k - 1)

C22_Witness ==
    /\ wt.pc = "ended"
    /\ wt.result = "returned"
    /\ wt.ret = "b"
    /\ wt.checks = 3
    /\ wt.tick = 1
    /\ wt.tick_increase = 2
    /\ wt.sleeps = <<1, 2>>

\* C23: wait() called with tick <= 0 fails immediately with a general error:
\* check is never called and no sleep happens.
C23_BadTickFails ==
    (wt.tick <= 0 /\ wt.pc \notin {"idle", "called"}) =>
        /\ wt.pc = "ended"
        /\ wt.result = "GeneralError"
        /\ wt.checks = 0
        /\ wt.sleeps = <<>>
        /\ wt.last = NoCheck
        /\ wt.now = 0

C23_Witness ==
    /\ wt.tick = 0
    /\ wt.timeout > 0
    /\ wt.pc = "ended"
    /\ wt.result = "GeneralError"
    /\ wt.checks = 0

\* C24: wait() computes its deadline once at start and fails with
\* WaitingTimedOutError both when the deadline has passed before a new
\* attempt (check_success false) and when a check returns successfully after
\* the deadline (check_success true); a value from a check that finished
\* after the deadline is never returned.
C24_TwoTimeouts ==
    Waited =>
        /\ wt.deadline = wt.timeout
        /\ wt.result = "WaitingTimedOutError" =>
              /\ ~wt.check_success =>
                    (wt.now > wt.deadline /\ ~CheckReturned)
              /\ wt.check_success =>
                    (CheckReturned /\ wt.last.at > wt.deadline)
        /\ (wt.pc = "ended" /\ CheckReturned /\ wt.last.at > wt.deadline) =>
              /\ wt.result = "WaitingTimedOutError"
              /\ wt.check_success
              /\ wt.ret = NoWait.ret
        /\ wt.result = "returned" => wt.last.at <= wt.deadline

C24_Witness ==
    /\ Waited
    /\ wt.pc = "ended"
    /\ wt.result = "WaitingTimedOutError"
    /\ wt.check_success
    /\ wt.checks = 2
    /\ wt.last.check = Returned("a")
    /\ wt.last.at = wt.deadline + 1

\* ---------------------------------------------------------------------------
\* Properties of Common.run()
\* ---------------------------------------------------------------------------
\* run() has ended.
RunEnded == proc.pc = "ended"

\* The error run() raises for a command that ended with the given code, with
\* the lines the readers captured: with join=True the one reader holds the
\* merged stream and gives it for stdout and for stderr.
RaisedFor(code) ==
    Some(RunError(proc.command, code, Some(proc.lines),
                  IF proc.join THEN Some(proc.lines)
                  ELSE Some(proc.errlines)))

\* C25: for every command that is still running when its timeout elapses,
\* run() kills the process group, ends with a run error carrying return code
\* 124 and the captured output, and does end.
C25_TimeoutEndsRun ==
    /\ [](proc.fired /\ proc.pc \in {"reading", "ended"} => proc.killpg = 1)
    /\ [](proc.fired /\ RunEnded =>
            /\ proc.result = "RunError"
            /\ proc.error = RaisedFor(PROCESS_TIMEOUT))
    /\ [](proc.fired => <>RunEnded)

\* C26: every non-interactive command that exits with a non-zero code makes
\* run() fail with a run error carrying the command, that code and the
\* captured stdout and stderr, and the command is started once.
C26_NonZeroExitRaises ==
    /\ proc.popen <= 1
    /\ (RunEnded /\ proc.popen = 1 /\ proc.found /\ ~proc.fired
          /\ proc.exit # 0) =>
            /\ proc.result = "RunError"
            /\ proc.error = RaisedFor(proc.exit)

C26_Witness ==
    /\ RunEnded
    /\ ~proc.fired /\ ~proc.join
    /\ proc.exit = 2
    /\ proc.popen = 1
    /\ proc.lines = <<"out">> /\ proc.errlines = <<"err">>
    /\ proc.result = "RunError"
    /\ proc.error = Some(RunError(proc.command, 2, Some(<<"out">>),
                                  Some(<<"err">>)))

\* ---------------------------------------------------------------------------
\* Properties of the lint commands
\* ---------------------------------------------------------------------------
\* lint() gave False for one of the items.
AnyFailed(items) == \E i \in 1..Len(items) : ~items[i]

\* Every item, once, in the order of the tree.
EachOnce(items) == [i \in 1..Len(items) |-> i]

\* C27: a lint command calls lint() for every item, also after a failure;
\* tests/plans/stories lint exits with 1 if and only if an item failed, and
\* the combined lint runs the three commands and exits non-zero if and only
\* if one of them did.
C27_LintChecksEverything ==
    lt.pc = "exited" =>
        IF lt.command = "lint"
        THEN /\ Len(lt.codes) = Len(LintCommands)
             /\ \A k \in 1..Len(LintCommands) :
                   /\ lt.linted[LintCommands[k]]
                        = EachOnce(lt.tree[LintCommands[k]])
                   /\ lt.codes[k]
                        = (IF AnyFailed(lt.tree[LintCommands[k]]) THEN 1 ELSE 0)
             /\ lt.exit_code # 0
                  <=> (\E k \in 1..Len(lt.codes) : lt.codes[k] # 0)
        ELSE /\ lt.linted[lt.command] = EachOnce(lt.tree[lt.command])
             /\ lt.exit_code \in {0, 1}
             /\ lt.exit_code = 1 <=> AnyFailed(lt.tree[lt.command])

C27_Witness ==
    /\ lt.pc = "exited"
    /\ lt.command = "lint"
    /\ lt.tree.tests_lint = <<FALSE, TRUE>>
    /\ lt.tree.plans_lint = <<TRUE>>
    /\ lt.tree.stories_lint = <<TRUE, FALSE>>
    /\ lt.linted.tests_lint = <<1, 2>>
    /\ lt.linted.stories_lint = <<1, 2>>
    /\ lt.codes = <<1, 0, 1>>
    /\ lt.exit_code = 1

\* ---------------------------------------------------------------------------
\* Properties of check()
\* ---------------------------------------------------------------------------
\* C30: check() uses the custom-result file for a test of result type
\* 'custom' whatever its framework, otherwise beakerlib parsing for a
\* beakerlib test, otherwise the result-file check, and the shell check
\* exactly when the result-file check raises a file error.
C30_CheckPriority ==
    ck.pc = "ended" =>
        IF ck.result = "custom"
        THEN /\ ck.called = <<"check_custom_results">>
             /\ ck.gave = ck.outcomes["check_custom_results"]
        ELSE IF ck.framework = "beakerlib"
        THEN /\ ck.called = <<"check_beakerlib">>
             /\ ck.gave = ck.outcomes["check_beakerlib"]
        ELSE /\ ck.called[1] = "check_result_file"
             /\ (\E k \in 1..Len(ck.called) : ck.called[k] = "check_shell")
                  <=> ck.outcomes["check_result_file"] = Raised("FileError")
             /\ ck.gave =
                  IF ck.outcomes["check_result_file"] = Raised("FileError")
                  THEN ck.outcomes["check_shell"]
                  ELSE ck.outcomes["check_result_file"]
             /\ \A k \in 1..Len(ck.called) :
                   ck.called[k] \in {"check_result_file", "check_shell"}

C30_Witness ==
    /\ ck.pc = "ended"
    /\ ck.result = "custom"
    /\ ck.framework = "beakerlib"
    /\ ck.called = <<"check_custom_results">>
    /\ ck.gave = Returned("results")

\* ---------------------------------------------------------------------------
\* Properties of _handle_reboot
\* ---------------------------------------------------------------------------
\* The marker content was read and its timeout converted without an error.
MarkerParsed(content) ==
    LoadError(content) = "none" /\ ParseTimeout(content).error = "none"

\* The guest.reboot() calls among calls that rebooted the guest.
Rebooting(calls) ==
    {k \in 1..Len(calls) : calls[k].outcome = "True"}

\* C28: on a reboot request the counter is incremented first, then the marker
\* is parsed, then deleted, then the test data are pushed, then guest.reboot()
\* is called: a step that fails leaves the later ones undone and the earlier
\* ones done; guest.reboot() is not called while the marker exists, and one
\* marker gives at most one reboot.
C28_RebootOrder ==
    [][pc = "handle_reboot" =>
        /\ handled'.done
        /\ reboot_count' = reboot_count + 1
        /\ handled'.countBefore = reboot_count
        /\ ~MarkerParsed(handled'.content) =>
              /\ rebootFile' = rebootFile
              /\ handled'.pushed = "no"
              /\ handled'.calls = <<>>
        /\ MarkerParsed(handled'.content) =>
              /\ ~rebootFile'
              /\ handled'.pushed # "no"
        /\ handled'.calls # <<>> =>
              /\ MarkerParsed(handled'.content)
              /\ ~rebootFile'
              /\ handled'.pushed = "ok"
        /\ handled'.pushed \notin {"no", "ok"} => handled'.calls = <<>>
        /\ Cardinality(Rebooting(handled'.calls)) <= 1]_vars

C28_Witness ==
    /\ handled.done
    /\ handled.countBefore = 0
    /\ reboot_count = 1
    /\ MarkerParsed(handled.content)
    /\ ~rebootFile
    /\ handled.pushed = "ok"
    /\ Len(handled.calls) = 2
    /\ Rebooting(handled.calls) = {2}
    /\ handled.outcome = "continue"

\* ---------------------------------------------------------------------------
\* Properties of the pull of the plan data directory
\* ---------------------------------------------------------------------------
\* C29: when the test loop ends by completion, by abort or by exit-first, the
\* statements after the loop come next, _run_tests returns only after the
\* plan data directory was pulled, the plan data directory is pulled once
\* and no pull of test data follows it.
C29_PlanDataPulledOnce ==
    /\ [](pc = "done" => pulls = [last |-> "plan", plan |-> 1])
    /\ [](pulls.plan <= 1 /\ (pulls.plan = 1 => pulls.last = "plan"))
    /\ [](pc = "final_pull" => pulls.plan = 0)
    /\ [][(\/ pc = "loop" /\ index >= ntests
           \/ pc = "stop_check"
                /\ StopDecision(abort, exit_first, result) = "break")
          => pc' = "final_pull"]_vars
    /\ [][pc = "final_pull" => pulls'.plan = 1]_vars

C29_Witness ==
    /\ pc = "done"
    /\ index < ntests
    /\ exit_first /\ ~abort
    /\ pulls = [last |-> "plan", plan |-> 1]

\* ---------------------------------------------------------------------------
\* Properties of the master connection and of stop()
\* ---------------------------------------------------------------------------
\* C31: over any sequence of execute, push, pull, reboot and stop calls on one
\* guest at most one master process exists, it is started by the first
\* command line built and never again, and every ssh and rsync command line
\* is given the same control socket path.
C31_OneMasterOneSocket ==
    /\ ms.alive <= 1
    /\ ms.popen <= 1
    /\ ms.mktemp <= 1
    /\ ms.popen = 1 <=> ms.used # {}
    /\ ms.popen = 1 <=> ms.process # "None"
    /\ ms.used # {} => ms.used = {ms.socket_path[1]}

C31_Witness ==
    /\ ms.last \in SshOperations
    /\ ms.ncalls = 3
    /\ ms.alive = 0
    /\ ms.popen = 1
    /\ ms.used = {Mktemp("/tmp", 0)}

\* C32: stop() raises nothing: a master process that does not exit within
\* the grace period is left alive and stop() goes on, the socket removal is
\* tried whenever the socket file exists, however the terminate step ended,
\* and a failed removal leaves stop() returning normally.
C32_StopNeverRaises ==
    [][ms'.last = "stop" /\ ms'.ncalls = ms.ncalls + 1 =>
        /\ ms'.stopped.raised = "none"
        /\ ms'.stopped.held <=> ms.process # "None"
        /\ ms'.stopped.waited = "TimeoutExpired" => ms'.alive = ms.alive
        /\ ms'.stopped.found <=> (ms.socket_path # NoValue /\ ms.socket)
        /\ ms'.stopped.found => ms'.stopped.unlinked \in UnlinkOutcomes
        /\ ms'.stopped.unlinked = "OSError" => ms'.socket = ms.socket
        /\ ms'.stopped.unlinked = "ok" => ~ms'.socket]_vars

C32_Witness ==
    /\ ms.last = "stop"
    /\ ms.stopped.held
    /\ ms.stopped.waited = "TimeoutExpired"
    /\ ms.alive = 1
    /\ ms.stopped.found
    /\ ms.stopped.unlinked = "OSError"
    /\ ms.stopped.raised = "none"

\* ---------------------------------------------------------------------------
\* Properties of the stream readers
\* ---------------------------------------------------------------------------
\* C33: when a non-interactive _run() that created the subprocess returns or
\* raises its run error, the readers it started (two, or one when stderr is
\* merged) have finished, and the output returned or carried is every line
\* the readers took, in the order taken.
C33_ReadersJoined ==
    (RunEnded /\ proc.popen = 1 /\ proc.found) =>
        /\ proc.started = (IF proc.join THEN {"out"} ELSE {"out", "err"})
        /\ proc.finished = proc.started
        /\ proc.pipe = <<>> /\ proc.errpipe = <<>>
        /\ proc.result \in {"returned", "RunError"}
        /\ proc.result = "RunError" =>
              /\ proc.error[1].stdout = Some(proc.lines)
              /\ proc.error[1].stderr =
                    Some(IF proc.join THEN proc.lines ELSE proc.errlines)
        /\ proc.result = "returned" =>
              /\ proc.output.stdout = Some(proc.lines)
              /\ proc.output.stderr =
                    (IF proc.join THEN NoValue ELSE Some(proc.errlines))

C33_Witness ==
    /\ RunEnded
    /\ proc.join /\ proc.fired
    /\ proc.finished = {"out"}
    /\ proc.lines = <<"err", "out">>
    /\ proc.result = "RunError"
    /\ proc.error[1].stdout = Some(<<"err", "out">>)

\* ---------------------------------------------------------------------------
\* Properties of exceptions raised while waiting
\* ---------------------------------------------------------------------------
\* The exceptions of check_boot_time() other than WaitingIncomplete.
OtherExceptions == {"ProvisionError", "AssertionError"}

\* C34: an exception of check other than WaitingIncomplete leaves wait() at
\* once, with no sleep and no further check; so a provision error raised
\* while the boot time is polled leaves reboot() as that error, not as a
\* false return.
C34_OtherExceptionsEscape ==
    /\ [][(rb.pc = "waiting" /\ rb'.pc # "idle"
            /\ rb'.last.read.kind \in OtherExceptions) =>
              /\ rb'.pc = "ended"
              /\ call'.result = rb'.last.read.kind
              /\ rb'.tick = rb.tick
              /\ rb'.now = rb'.last.at]_vars
    /\ [][rb.pc = "ended" => rb' = NoReboot /\ call' = call]_vars

C34_Witness ==
    /\ rb.pc = "ended"
    /\ rb.last.read = FailedRead("ProvisionError")
    /\ rb.last.at >= 2
    /\ call.op = "reboot"
    /\ call.result = "ProvisionError"

\* ---------------------------------------------------------------------------
\* Properties of the normalization of provision step data
\* ---------------------------------------------------------------------------
\* Two phases of the step data have the same name.
SharedName(names) ==
    \E i, j \in 1..Len(names) : i # j /\ names[i] = names[j]

PhaseFailed ==
    /\ ppc = "raised"
    /\ perr \notin {"none", "SystemExit", "SpecificationError"}

\* The claim as stated: the guests recorded so far are persisted.
C36_Original ==
    PhaseFailed =>
        /\ saved.calls = entered.saves + 1
        /\ status # "done"
        /\ saved.content = Some(GuestMapping(guests))

\* C36: when a phase of go() raises anything but SystemExit or
\* SpecificationError, go() calls save() once before the error propagates,
\* with a status that is not 'done' (the one go() was entered with); the
\* mapping of the guests recorded so far is in guests.yaml when the write
\* succeeded, and nothing is written in dry mode or when the write fails
\* with a file error.
C36_FailureStillSaves ==
    /\ [](PhaseFailed =>
            /\ save
            /\ saved.calls = entered.saves + 1
            /\ status = entered.status
            /\ status # "done"
            /\ guests = ExpectedGuests(pos)
            /\ saved.last = "dry" <=> dry
            /\ saved.last = "ok" =>
                  saved.content = Some(GuestMapping(guests)))
    /\ [][(ppc = "phases" /\ ppc' = "raised" /\ saved'.last # "ok") =>
             saved'.content = saved.content]_vars

\* A phase raised a general error after a guest was listed, and save() wrote
\* the mapping of the guests.
C36_Witness ==
    /\ PhaseFailed
    /\ perr = "GeneralError"
    /\ ~dry
    /\ Len(guests) > 0
    /\ saved.calls = entered.saves + 1
    /\ saved.last = "ok"
    /\ saved.content = Some(GuestMapping(guests))

\* ---------------------------------------------------------------------------
\* Properties of a test that rebooted
\* ---------------------------------------------------------------------------
\* The indexes in a sequence.
Indexes(seq) == {seq[k] : k \in 1..Len(seq)}

\* The step of _handle_reboot in which the guest rebooted.
RebootHandled == pc = "handle_reboot" /\ handled'.outcome = "continue"

\* C37: a handled reboot adds nothing to the recorded results and returns to
\* the loop with the same index, so the test is executed again; results are
\* recorded for a test only after the execution that did not reboot, after
\* which the test is not executed again: each test contributes the results
\* of one execution, at most once.
C37_OnlyFinalExecutionRecorded ==
    /\ [][RebootHandled =>
            /\ recorded' = recorded
            /\ recordedFor' = recordedFor
            /\ index' = index
            /\ index < ntests
            /\ pc' = "loop"
            /\ curExec'.index = index
            /\ curExec'.rebooted]_vars
    /\ [][(pc = "loop" /\ curExec.rebooted) =>
            pc' = "execute" /\ index' = index]_vars
    /\ [][pc = "execute" =>
            /\ index \notin Indexes(recordedFor)
            /\ curExec'.index = index
            /\ ~curExec'.rebooted]_vars
    /\ [][pc = "record" =>
            /\ ~curExec.rebooted
            /\ curExec.index = index
            /\ index \notin Indexes(recordedFor)
            /\ recordedFor' = Append(recordedFor, index)
            /\ recorded' = recorded \o results]_vars
    /\ [][pc # "record" =>
            recorded' = recorded /\ recordedFor' = recordedFor]_vars
    /\ [](\A i, j \in 1..Len(recordedFor) :
            i # j => recordedFor[i] # recordedFor[j])

\* A test rebooted, was executed again, and the results of the second
\* execution were recorded.
C37_Witness ==
    /\ pc = "stop_check"
    /\ prevExec = [index |-> index, rebooted |-> TRUE]
    /\ curExec = [index |-> index, rebooted |-> FALSE]
    /\ recordedFor = <<index>>
    /\ Len(recorded) = Len(results)
    /\ Len(recorded) > 0

\* No result of the list carries the note 'aborted'.
NoneAborted(rs) == \A k \in 1..Len(rs) : rs[k].note # "aborted"

\* C38: when the abort marker is present too and the reboot succeeds,
\* check_abort_file() is not called in that iteration (the local abort and
\* the marker stay as they were), no result is annotated 'aborted' or
\* recorded, the loop goes on, and the same test is executed again.
C38_RebootBeforeAbort ==
    /\ [][(RebootHandled /\ abortFile) =>
            /\ abort' = abort
            /\ ~abort'
            /\ abortFile' = abortFile
            /\ results' = results
            /\ NoneAborted(results')
            /\ recorded' = recorded
            /\ err' = "none"
            /\ pc' = "loop"
            /\ index' = index
            /\ index < ntests]_vars
    /\ [][(pc = "loop" /\ curExec.rebooted /\ abortFile) =>
            /\ pc' = "execute"
            /\ index' = index
            /\ abort' = abort
            /\ recorded' = recorded]_vars
    /\ [][(pc = "execute" /\ curExec.rebooted /\ abortFile) =>
            /\ curExec'.index = curExec.index
            /\ recorded' = recorded]_vars

\* Both markers were there, the guest rebooted, and the test was executed
\* again with nothing recorded and the abort marker not examined.
C38_Witness ==
    /\ pc = "pull"
    /\ prevExec = [index |-> index, rebooted |-> TRUE]
    /\ curExec = [index |-> index, rebooted |-> FALSE]
    /\ abortFile
    /\ ~abort
    /\ index \notin Indexes(recordedFor)

\* ---------------------------------------------------------------------------
\* Termination of the test loop
\* ---------------------------------------------------------------------------
\* Exceptions of the guest operations: push, pull, execute, reboot.
GuestOperationErrors == {"RunError", "ProvisionError"}

\* Exceptions of reading the reboot marker in _handle_reboot.
MarkerErrors == {"JSONDecodeError", "AttributeError", "TypeError"}

HasWorkdir(r) == wd.runs[r].workdir # NoWorkdir

\* C40: runs creating their workdirs at the same time never get the same
\* directory: the workdir of a run is run-NNN for a number in 1..WORKDIR_MAX,
\* written with at least three digits, that the run itself created, every
\* lower number being taken; two runs have different workdirs; a run raises
\* 'Workdir full' only when all WORKDIR_MAX directories exist, and then has
\* no workdir. No directory disappears.
C40_DistinctWorkdirs ==
    /\ [](\A r \in Runs :
            /\ HasWorkdir(r) =>
                  /\ wd.runs[r].pc = "created"
                  /\ wd.runs[r].id_bit \in 1..WORKDIR_MAX
                  /\ wd.runs[r].workdir = Directory(wd.runs[r].id_bit)
                  /\ Len(wd.runs[r].workdir) >= 4
                  /\ wd.runs[r].workdir[1] = "run-"
                  /\ wd.runs[r].workdir \in wd.dirs \ wd.old
                  /\ \A n \in 1..(wd.runs[r].id_bit - 1) :
                        Directory(n) \in wd.dirs
                  /\ \A q \in Runs \ {r} :
                        wd.runs[q].workdir # wd.runs[r].workdir
            /\ wd.runs[r].pc = "created" => HasWorkdir(r)
            /\ wd.runs[r].result = "Workdir full" <=> wd.runs[r].pc = "raised"
            /\ wd.runs[r].pc = "raised" =>
                  /\ ~HasWorkdir(r)
                  /\ \A n \in 1..WORKDIR_MAX : Directory(n) \in wd.dirs)
    /\ [][wd.dirs \subseteq wd'.dirs]_vars
    /\ [][\A r \in Runs :
            (~HasWorkdir(r) /\ wd'.runs[r].workdir # NoWorkdir) =>
                /\ wd'.runs[r].workdir \notin wd.dirs
                /\ wd'.dirs = wd.dirs \cup {wd'.runs[r].workdir}]_vars

\* Two runs raced for the last free number: one has run-1000, the other
\* found every directory taken.
C40_Witness ==
    \E r, q \in Runs :
        /\ wd.runs[r].workdir = Directory(WORKDIR_MAX)
        /\ wd.runs[q].pc = "raised"
        /\ wd.runs[q].result = "Workdir full"
        /\ Directory(1) \in wd.old

====
